---- MODULE Spec2Model ----
(***************************************************************************)
(* LifeFlow (src/script.js): the storage gateway, the task and project     *)
(* managers, the event bus and the kanban rendering, as a state machine.   *)
(*                                                                         *)
(* Identifiers are the values of a fresh counter (generateId), 0 is null.  *)
(* A due date "YYYY-MM-DD" is its day number; 0 is "no due date".  An      *)
(* instant is a number of hours since day 0, 00:00 UTC.                    *)
(***************************************************************************)
EXTENDS Integers, Sequences, FiniteSets, TLC

VARIABLES
    tasks,          \* TaskManager.tasks
    projects,       \* ProjectManager.projects
    localStore,     \* localStorage['lifeflow_data']
    indexedStore,   \* IndexedDB 'data' store, key 'lifeflow_data'
    useIndexedDB,   \* StorageManager.useIndexedDB
    appPc,          \* position of App.init
    procs,          \* the asynchronous operations in progress, one per slot
    nextId,         \* generateId: the next fresh identifier
    opsLeft,        \* operations that may still be started in this run
    faultsLeft,     \* storage calls that may still throw in this run
    theme,          \* document.documentElement.dataset.theme
    fcall,          \* the last call of TaskManager.filterTasks: arguments and result
    bus,            \* EventBus.events and what the last emit did
    router,         \* Router state, the displays that are visible, the nav counts
    worker,         \* the service worker: the cache buckets and its position
    lastCall        \* the last call of a function looked at on its own

vars == <<tasks, projects, localStore, indexedStore, useIndexedDB, appPc, procs,
          nextId, opsLeft, faultsLeft, theme, fcall, bus, router, worker, lastCall>>

----------------------------------------------------------------------------
(* Bounds *)

MaxLen == 3          \* tasks in the collection filterTasks is applied to
MaxOps == 3          \* operations started in one run, overlapping
MaxSeqOps == 2       \* operations started in one run, one at a time
MaxFaults == 1       \* storage calls that throw in one run
MaxNavOps == 1       \* operations started in one run with navigation
MaxFormOps == 2      \* operations started in one run with the task form
MaxRefOps == 2       \* operations started in one run with a form opened earlier
MaxCsvRows == 2      \* tasks in the collection convertToCSV is applied to
MaxFetches == 2      \* fetch events in one run of the service worker
MaxSubs == 2         \* subscriptions to one event

(* Program constants *)

HoursPerDay == 24
WeekDays == 7
MonthDays == 30

Null == 0
NoDue == 0

Statuses == {"todo", "doing", "done"}
Views == {"inbox", "today", "week", "month"}

----------------------------------------------------------------------------
(* Strings: a string is the sequence of its characters; a run of characters *)
(* that holds no double quote and no markup character may stand as one      *)
(* element of the sequence                                                  *)

\* String.prototype.toLowerCase, character by character
LowerChar(c) ==
    CASE c = "A" -> "a"
      [] c = "B" -> "b"
      [] OTHER -> c

toLowerCase(str) == [i \in 1..Len(str) |-> LowerChar(str[i])]

\* String.prototype.trim: the white space at both ends goes
RECURSIVE trimStart(_)
trimStart(str) ==
    IF str # <<>> /\ Head(str) = " " THEN trimStart(Tail(str)) ELSE str

RECURSIVE trimEnd(_)
trimEnd(str) ==
    IF str # <<>> /\ str[Len(str)] = " "
    THEN trimEnd(SubSeq(str, 1, Len(str) - 1))
    ELSE str

trim(str) == trimEnd(trimStart(str))

\* String.prototype.includes: part occurs in str from some position on
RECURSIVE includes(_, _)
includes(str, part) ==
    IF Len(part) > Len(str) THEN FALSE
    ELSE IF SubSeq(str, 1, Len(part)) = part THEN TRUE
         ELSE includes(Tail(str), part)

\* the title the operations of the application give a task
SomeTitle == <<"a">>

\* the double quote
Quote == "\""

\* str.replace(/"/g, '""')
RECURSIVE doubleQuotes(_)
doubleQuotes(str) ==
    IF str = <<>> THEN <<>>
    ELSE (IF Head(str) = Quote THEN <<Quote, Quote>> ELSE <<Head(str)>>)
             \o doubleQuotes(Tail(str))

\* Array.prototype.join
RECURSIVE join(_, _)
join(strs, sep) ==
    IF strs = <<>> THEN <<>>
    ELSE IF Len(strs) = 1 THEN strs[1]
         ELSE strs[1] \o sep \o join(Tail(strs), sep)

----------------------------------------------------------------------------
(* Dates: isToday, isWithinDays *)

\* new Date("YYYY-MM-DD"): a date-only string is read as 00:00 UTC of that day
ParseDate(due) == due * HoursPerDay

\* Date.prototype.toDateString: the calendar day in local time
LocalDay(instant, tz) == (instant + tz) \div HoursPerDay

\* today.setHours(0, 0, 0, 0): local midnight of the current day, as an instant
LocalMidnight(now, tz) == LocalDay(now, tz) * HoursPerDay - tz

isToday(due, now, tz) ==
    IF due = NoDue THEN FALSE
    ELSE LocalDay(ParseDate(due), tz) = LocalDay(now, tz)

isWithinDays(due, days, now, tz) ==
    IF due = NoDue THEN FALSE
    ELSE /\ ParseDate(due) >= LocalMidnight(now, tz)
         /\ ParseDate(due) <= now + days * HoursPerDay

----------------------------------------------------------------------------
(* TaskManager.filterTasks *)

\* a comparator that puts the undated tasks first
compareUndatedFirst(a, b) ==
    IF a.done # b.done THEN (IF a.done THEN 1 ELSE -1)
    ELSE IF a.due # NoDue /\ b.due # NoDue THEN ParseDate(a.due) - ParseDate(b.due)
    ELSE IF a.due # NoDue THEN 1
    ELSE IF b.due # NoDue THEN -1
    ELSE b.created - a.created

\* a comparator that breaks the ties of undated tasks oldest first
compareOldestFirst(a, b) ==
    IF a.done # b.done THEN (IF a.done THEN 1 ELSE -1)
    ELSE IF a.due # NoDue /\ b.due # NoDue THEN ParseDate(a.due) - ParseDate(b.due)
    ELSE IF a.due # NoDue THEN -1
    ELSE IF b.due # NoDue THEN 1
    ELSE a.created - b.created

\* the comparator handed to sort: negative when a goes first
compareTasks(a, b) ==
    IF a.done # b.done THEN (IF a.done THEN 1 ELSE -1)
    ELSE IF a.due # NoDue /\ b.due # NoDue THEN ParseDate(a.due) - ParseDate(b.due)
    ELSE IF a.due # NoDue THEN -1
    ELSE IF b.due # NoDue THEN 1
    ELSE b.created - a.created

\* Array.prototype.sort is stable: an element is placed after every element
\* already placed that does not compare greater than it
RECURSIVE InsertSorted(_, _)
InsertSorted(x, s) ==
    IF s = <<>> THEN <<x>>
    ELSE IF compareTasks(Head(s), x) > 0 THEN <<x>> \o s
         ELSE <<Head(s)>> \o InsertSorted(x, Tail(s))

RECURSIVE SortTasks(_)
SortTasks(s) ==
    IF s = <<>> THEN <<>>
    ELSE InsertSorted(s[Len(s)], SortTasks(SubSeq(s, 1, Len(s) - 1)))

\* the selection step of filterTasks
\* an inbox that keeps every task
matchesViewInboxAll(t, view, projectId, now, tz) ==
    IF projectId # Null THEN t.projectId = projectId
    ELSE CASE view = "today" -> isToday(t.due, now, tz)
           [] view = "week"  -> isWithinDays(t.due, WeekDays, now, tz)
           [] view = "month" -> isWithinDays(t.due, MonthDays, now, tz)
           [] OTHER -> TRUE

\* a filter that narrows the tasks of the project by the named view
matchesViewWithinProject(t, view, projectId, now, tz) ==
    /\ projectId # Null => t.projectId = projectId
    /\ CASE view = "inbox" -> projectId # Null \/ t.projectId = Null
         [] view = "today" -> isToday(t.due, now, tz)
         [] view = "week"  -> isWithinDays(t.due, WeekDays, now, tz)
         [] view = "month" -> isWithinDays(t.due, MonthDays, now, tz)
         [] OTHER -> TRUE

matchesView(t, view, projectId, now, tz) ==
    IF projectId # Null THEN t.projectId = projectId
    ELSE CASE view = "inbox" -> t.projectId = Null
           [] view = "today" -> isToday(t.due, now, tz)
           [] view = "week"  -> isWithinDays(t.due, WeekDays, now, tz)
           [] view = "month" -> isWithinDays(t.due, MonthDays, now, tz)
           [] OTHER -> TRUE

\* filter() copies; with no projectId and an unrecognized view the array that
\* is sorted is this.tasks itself
filtersInPlace(view, projectId) == projectId = Null /\ view \notin Views

filterTasks(ts, view, projectId, now, tz) ==
    LET keep(t) == matchesView(t, view, projectId, now, tz)
    IN  SortTasks(SelectSeq(ts, keep))

\* a search that compares the query as typed with the lower-cased fields
searchTasksQueryAsTyped(ts, query) ==
    LET hit(t) ==
            \/ includes(toLowerCase(t.title), query)
            \/ includes(toLowerCase(t.desc), query)
            \/ \E k \in 1..Len(t.tags) : includes(toLowerCase(t.tags[k]), query)
    IN  IF query = <<>> THEN ts ELSE SelectSeq(ts, hit)

\* searchTasks: if (!query) return this.tasks; else filter() on the lower-cased
\* title, desc and tags
searchTasks(ts, query) ==
    LET lowerQuery == toLowerCase(query)
        hit(t) ==
            \/ includes(toLowerCase(t.title), lowerQuery)
            \/ includes(toLowerCase(t.desc), lowerQuery)
            \/ \E k \in 1..Len(t.tags) : includes(toLowerCase(t.tags[k]), lowerQuery)
    IN  IF query = <<>> THEN ts ELSE SelectSeq(ts, hit)

----------------------------------------------------------------------------
(* StorageManager *)

getDefaultData ==
    [tasks |-> <<>>, projects |-> <<>>,
     settings |-> [darkMode |-> "auto", notifications |-> TRUE]]

\* what a store holds under the key: nothing, a value JSON.parse rejects, or a
\* document; a blocked store throws on every access
NoDocument == [kind |-> "none", doc |-> getDefaultData]
Unparsable == [kind |-> "corrupt", doc |-> getDefaultData]
Blocked == [kind |-> "blocked", doc |-> getDefaultData]
Stored(doc) == [kind |-> "doc", doc |-> doc]

\* getFromIndexedDB: resolve(request.result || default); a failed request rejects
getFromIndexedDB(st) ==
    IF st.kind = "doc" THEN [ok |-> TRUE, value |-> st.doc]
    ELSE IF st.kind = "none" THEN [ok |-> TRUE, value |-> getDefaultData]
    ELSE [ok |-> FALSE, value |-> getDefaultData]

\* the localStorage branch: data ? JSON.parse(data) : default; JSON.parse may throw
getFromLocalStorage(st) ==
    IF st.kind = "none" THEN [ok |-> TRUE, value |-> getDefaultData]
    ELSE IF st.kind = "doc" THEN [ok |-> TRUE, value |-> st.doc]
    ELSE [ok |-> FALSE, value |-> getDefaultData]

\* a getData that reads localStorage whichever store is in use
getDataFromLocalStorage(idb, ls, ixs, throws) ==
    LET r == getFromLocalStorage(ls)
    IN  IF throws \/ ~r.ok THEN getDefaultData ELSE r.value

\* getData: the try block, then the catch block; throws: the store access itself throws
getData(idb, ls, ixs, throws) ==
    LET r == IF idb THEN getFromIndexedDB(ixs) ELSE getFromLocalStorage(ls)
    IN  IF throws \/ ~r.ok THEN getDefaultData ELSE r.value

\* a saveData whose failed write leaves the key empty
saveDataClearing(st, data, throws) == IF throws THEN NoDocument ELSE Stored(data)

\* saveData: a write that throws is caught and leaves the store as it was
\* a save that writes the default document whatever it is given
saveDataDefault(st, data, throws) == IF throws THEN st ELSE Stored(getDefaultData)

saveData(st, data, throws) == IF throws THEN st ELSE Stored(data)

\* the store getData and saveData use
CurrentStore == IF useIndexedDB THEN indexedStore ELSE localStore

----------------------------------------------------------------------------
(* Asynchronous operations.  An async function runs without interruption   *)
(* up to its next await; what follows the await runs as a later step, and   *)
(* the steps of other operations may come in between.  A storage read is    *)
(* made when getData is called, a write when saveData is called.            *)

Slots == {1, 2}

Idle ==
    [op |-> "none", call |-> "none", pc |-> "idle", id |-> Null,
     data |-> getDefaultData, arg |-> "", pid |-> Null, pend |-> <<>>,
     refs |-> <<>>, found |-> FALSE, emitted |-> <<>>, saves |-> 0,
     readThrew |-> FALSE, saveThrew |-> FALSE, ret |-> "", overlapped |-> FALSE]

Active(p) == procs[p].pc \in {"awaitGet", "awaitSave", "awaitOp"}
Quiescent == \A p \in Slots : ~Active(p)

\* slots are taken lowest first
Free(p) == ~Active(p) /\ \A q \in Slots : q < p => Active(q)

CanBegin(p) == appPc = "ready" /\ Free(p) /\ opsLeft > 0

MayThrow == IF faultsLeft > 0 THEN BOOLEAN ELSE {FALSE}
Thrown(throws) == IF throws THEN 1 ELSE 0

\* storage.getData() as called now
Load(throws) == getData(useIndexedDB, localStore, indexedStore, throws)

\* Array.prototype.find / findIndex by id: the first match, 0 when none
IndexOfId(s, id) ==
    IF \E i \in 1..Len(s) : s[i].id = id
    THEN CHOOSE i \in 1..Len(s) : s[i].id = id /\ \A j \in 1..(i - 1) : s[j].id # id
    ELSE 0

\* Array.prototype.splice(index, 1)
RemoveAt(s, i) == SubSeq(s, 1, i - 1) \o SubSeq(s, i + 1, Len(s))

\* Object.assign(target, updates)
ObjectAssign(target, updates) ==
    [f \in DOMAIN target |-> IF f \in DOMAIN updates THEN updates[f] ELSE target[f]]

\* ids of the elements of s that satisfy projectId = id, in order
RECURSIVE IdsInProject(_, _)
IdsInProject(s, id) ==
    IF s = <<>> THEN <<>>
    ELSE IF Head(s).projectId = id THEN <<Head(s).id>> \o IdsInProject(Tail(s), id)
         ELSE IdsInProject(Tail(s), id)

\* the task object createTask builds; status "", desc '' and no tags stand for
\* an absent field
newTask(taskData, id, created) ==
    [id |-> id,
     title |-> taskData.title,
     desc |-> taskData.desc,
     tags |-> taskData.tags,
     projectId |-> taskData.projectId,
     due |-> taskData.due,
     done |-> FALSE,
     created |-> created,
     status |-> IF taskData.status = "" THEN "todo" ELSE taskData.status]

\* the project object createProject builds; view "" stands for an absent field
newProject(projectData, id) ==
    [id |-> id, view |-> IF projectData.view = "" THEN "list" ELSE projectData.view]

\* the event a manager operation emits after its save
eventOf(call) ==
    CASE call = "createTask" -> "task:created"
      [] call = "updateTask" -> "task:updated"
      [] call = "toggleTask" -> "task:updated"
      [] call = "deleteTask" -> "task:deleted"
      [] call = "createProject" -> "project:created"
      [] call = "updateProject" -> "project:updated"
      [] call = "deleteProject" -> "project:deleted"
      [] OTHER -> ""

\* a save() that starts from the default document instead of the loaded one
documentFromDefault(pr) ==
    CASE pr.call \in {"createTask", "updateTask", "toggleTask", "deleteTask"} ->
             [getDefaultData EXCEPT !.tasks = tasks]
      [] pr.call \in {"createProject", "updateProject", "deleteProject"} ->
             [getDefaultData EXCEPT !.projects = projects]
      [] OTHER -> [getDefaultData EXCEPT !.settings.darkMode = pr.arg]

\* what save() puts in the loaded document before writing it: TaskManager.save,
\* ProjectManager.save, toggleDarkMode
\* a save that writes, of the tasks in memory, those the operation loaded and
\* its own, and so leaves out what another operation added meanwhile
documentOfOwnView(pr) ==
    LET known(t) ==
            t.id = pr.id \/ \E i \in 1..Len(pr.data.tasks) : pr.data.tasks[i].id = t.id
    IN  CASE pr.call \in {"createTask", "updateTask", "toggleTask", "deleteTask"} ->
                 [pr.data EXCEPT !.tasks = SelectSeq(tasks, known)]
          [] pr.call \in {"createProject", "updateProject", "deleteProject"} ->
                 [pr.data EXCEPT !.projects = projects]
          [] OTHER -> [pr.data EXCEPT !.settings.darkMode = pr.arg]

\* a save that writes the document as it was loaded
documentAsLoaded(pr) == pr.data

documentToSave(pr) ==
    CASE pr.call \in {"createTask", "updateTask", "toggleTask", "deleteTask"} ->
             [pr.data EXCEPT !.tasks = tasks]
      [] pr.call \in {"createProject", "updateProject", "deleteProject"} ->
             [pr.data EXCEPT !.projects = projects]
      [] OTHER -> [pr.data EXCEPT !.settings.darkMode = pr.arg]

\* an operation that emits its event as soon as it has mutated memory
SuspendEmitting(pr, call, id, throws) ==
    [pr EXCEPT !.call = call, !.pc = "awaitGet", !.id = id, !.found = TRUE,
               !.data = Load(throws), !.readThrew = throws,
               !.emitted = Append(@, [name |-> eventOf(call), id |-> id])]

\* pr has mutated memory and called this.save(): it is suspended in getData
Suspend(pr, call, id, throws) ==
    [pr EXCEPT !.call = call, !.pc = "awaitGet", !.id = id, !.found = TRUE,
               !.data = Load(throws), !.readThrew = throws]

\* pr returns without having called save()
\* a return that emits the event of the call on its way out
ReturnEmitting(pr, call, id, pc, ret) ==
    [pr EXCEPT !.call = call, !.pc = pc, !.id = id, !.ret = ret,
               !.emitted = Append(@, [name |-> eventOf(call), id |-> id])]

Return(pr, call, id, pc, ret) ==
    [pr EXCEPT !.call = call, !.pc = pc, !.id = id, !.ret = ret]

\* an operation as it is called; overlapped: another one is in progress
Began(op) == [Idle EXCEPT !.op = op, !.overlapped = ~Quiescent]

----------------------------------------------------------------------------
(* EventBus.  A callback is known by its name; events maps every event name *)
(* to the callbacks subscribed to it, a name never subscribed to the empty  *)
(* list.                                                                    *)

EventNames ==
    {"task:created", "task:updated", "task:deleted",
     "project:created", "project:updated", "project:deleted"}

Callbacks == {"updateCounts", "logEvent"}

\* this.events = {}
NoSubscriptions == [event \in EventNames |-> <<>>]

\* on: push(callback)
on(events, event, callback) == [events EXCEPT ![event] = Append(@, callback)]

\* off: filter(cb => cb !== callback)
off(events, event, callback) ==
    LET other(cb) == cb # callback
    IN  [events EXCEPT ![event] = SelectSeq(@, other)]

\* a forEach that goes on with the next callback when one throws
forEachIsolating(callbacks, throwing) ==
    [calls |-> callbacks, threw |-> FALSE]

\* forEach(callback => callback(data)): the callbacks called, in order, and
\* whether one of them threw; throwing: the callbacks that throw when called
RECURSIVE forEach(_, _)
forEach(callbacks, throwing) ==
    IF callbacks = <<>> THEN [calls |-> <<>>, threw |-> FALSE]
    ELSE IF Head(callbacks) \in throwing
         THEN [calls |-> <<Head(callbacks)>>, threw |-> TRUE]
         ELSE LET rest == forEach(Tail(callbacks), throwing)
              IN  [calls |-> <<Head(callbacks)>> \o rest.calls, threw |-> rest.threw]

\* the bus after emit(event, data): the subscriptions are as they were
emit(b, event, throwing) ==
    LET done == forEach(b.events[event], throwing)
    IN  [b EXCEPT !.event = event, !.throwing = throwing,
                  !.calls = done.calls, !.threw = done.threw]

NoEmit ==
    [events |-> NoSubscriptions, event |-> "", throwing |-> {}, calls |-> <<>>,
     threw |-> FALSE]

----------------------------------------------------------------------------
(* Router *)

Displays == {"taskListView", "kanbanView", "projectsView"}

\* the clock the application runs at: 02:00 UTC of day 2, in UTC
AppClock == [now |-> 2 * HoursPerDay + 2, tz |-> 0]

\* counts that take the complete tasks in
updateCountsAll(ts, ps, clock) ==
    LET count(view) == Len(filterTasks(ts, view, Null, clock.now, clock.tz))
    IN  [inbox |-> count("inbox"), today |-> count("today"), week |-> count("week"),
         month |-> count("month"), projects |-> Len(ps)]

\* updateCounts: filterTasks(view).filter(t => !t.done).length, projects.length
updateCounts(ts, ps, clock) ==
    LET open(t) == ~t.done
        count(view) ==
            Len(SelectSeq(filterTasks(ts, view, Null, clock.now, clock.tz), open))
    IN  [inbox |-> count("inbox"), today |-> count("today"), week |-> count("week"),
         month |-> count("month"), projects |-> Len(ps)]

\* renderView, the displays it leaves without the class hidden
visibleDisplays(view, projectId, ps) ==
    IF projectId # Null
    THEN IF IndexOfId(ps, projectId) = 0 THEN {}
         ELSE IF ps[IndexOfId(ps, projectId)].view = "kanban" THEN {"kanbanView"}
              ELSE {"taskListView"}
    ELSE IF view = "projects" THEN {"projectsView"}
         ELSE {"taskListView"}

\* renderView calls renderTaskList(this.currentView) with no projectId, which
\* calls filterTasks(view): the tasks in memory after it
tasksAfterRender(ts, view, projectId, clock) ==
    IF projectId = Null /\ view # "projects" /\ filtersInPlace(view, projectId)
    THEN filterTasks(ts, view, projectId, clock.now, clock.tz)
    ELSE ts

\* the router after renderView()
renderView(r, ts, ps, clock) ==
    [r EXCEPT
        !.visible = visibleDisplays(r.currentView, r.currentProjectId, ps),
        !.counts = updateCounts(tasksAfterRender(ts, r.currentView,
                                                 r.currentProjectId, clock),
                                ps, clock)]

\* the router after navigate(view, projectId)
navigate(r, view, projectId, ts, ps, clock) ==
    renderView([r EXCEPT !.currentView = view, !.currentProjectId = projectId],
               ts, ps, clock)

\* new Router(), before anything is rendered
NewRouter ==
    [currentView |-> "inbox", currentProjectId |-> Null, visible |-> {},
     counts |-> [inbox |-> 0, today |-> 0, week |-> 0, month |-> 0, projects |-> 0]]

\* the listeners of App.setupEventListeners
setupEventListeners(events) ==
    on(on(on(on(on(on(events, "task:created", "updateCounts"),
                      "task:updated", "updateCounts"),
                   "task:deleted", "updateCounts"),
                "project:created", "updateCounts"),
             "project:updated", "updateCounts"),
          "project:deleted", "updateCounts")

\* the router once the callbacks of an emit have run
afterCallbacks(r, calls, ts, ps, clock) ==
    IF \E i \in 1..Len(calls) : calls[i] = "updateCounts"
    THEN [r EXCEPT !.counts = updateCounts(ts, ps, clock)]
    ELSE r

\* the function looked at on its own, not called yet
NoLastCall == [op |-> "none", arg |-> <<>>, input |-> <<>>, out |-> <<>>]

----------------------------------------------------------------------------
(* The service worker: install, activate and fetch *)

CACHE_NAME == "lifeflow-v1"

\* the fetch events being handled, each in a slot of its own
FetchSlots == {1, 2}

\* what a response is: none yet, a cached or a network response with its
\* status, type and body, or undefined after a network failure
NoResponse == [from |-> "none", status |-> 0, type |-> "", body |-> ""]
Undefined == [from |-> "undefined", status |-> 0, type |-> "", body |-> ""]

\* no fetch event in the slot
NoFetch ==
    [pc |-> "idle", method |-> "", url |-> <<>>, response |-> NoResponse,
     requests |-> 0, afterReturn |-> FALSE]

\* no worker registered: no step of it taken, no bucket looked at; cache holds
\* the entries of the bucket CACHE_NAME and puts those being written to it
NoWorker ==
    [pc |-> "none", buckets |-> {}, keys |-> {}, pending |-> {},
     cache |-> {}, puts |-> {}, fetches |-> [f \in FetchSlots |-> NoFetch],
     fetchesLeft |-> 0]

\* an activate step that deletes every bucket it finds
bucketsToDeleteAll(cacheNames) == cacheNames

\* the names for which the map callback calls caches.delete
bucketsToDelete(cacheNames) == {cacheName \in cacheNames : cacheName # CACHE_NAME}

WorkerUnchanged ==
    UNCHANGED <<tasks, projects, localStore, indexedStore, useIndexedDB, appPc, procs,
                nextId, opsLeft, faultsLeft, theme, fcall, bus, router, lastCall>>

\* install: caches.open(CACHE_NAME) creates the bucket; a failure is caught and
\* the step completes all the same
WorkerInstall(opened) ==
    /\ worker.pc = "parsed"
    /\ worker' = [worker EXCEPT
                     !.pc = "installed",
                     !.buckets = IF opened THEN @ \cup {CACHE_NAME} ELSE @]
    /\ WorkerUnchanged

\* activate: caches.keys() resolves, and the map starts one caches.delete for
\* every other name, all in flight together
WorkerActivateKeys ==
    /\ worker.pc = "installed"
    /\ worker' = [worker EXCEPT !.pc = "activating",
                                !.keys = worker.buckets,
                                !.pending = bucketsToDelete(worker.buckets)]
    /\ WorkerUnchanged

\* one caches.delete(cacheName) takes effect
WorkerActivateDelete(cacheName) ==
    /\ worker.pc = "activating"
    /\ cacheName \in worker.pending
    /\ worker' = [worker EXCEPT !.buckets = @ \ {cacheName},
                                !.pending = @ \ {cacheName}]
    /\ WorkerUnchanged

\* Promise.all resolves once every delete has: waitUntil is over
WorkerActivateDone ==
    /\ worker.pc = "activating"
    /\ worker.pending = {}
    /\ worker' = [worker EXCEPT !.pc = "activated"]
    /\ WorkerUnchanged

\* String.prototype.startsWith
startsWith(str, prefix) ==
    Len(str) >= Len(prefix) /\ SubSeq(str, 1, Len(prefix)) = prefix

\* a handler that looks at the scheme alone
respondsToAnyMethod(method, url) == startsWith(url, <<"h", "t", "t", "p">>)

\* the fetch listener goes on to respondWith for GET requests whose url starts
\* with 'http'; for every other request it returns at once
responds(method, url) == method = "GET" /\ startsWith(url, <<"h", "t", "t", "p">>)

\* caches.match(request): the entry of the request, if there is one
cacheMatch(cache, url) == {entry \in cache : entry.url = url}

\* !response || response.status !== 200 || response.type === 'error'
notCached(response) ==
    response.from = "undefined" \/ response.status # 200 \/ response.type = "error"

\* a response of the same url that was to be cached has been returned to its
\* caller
ReturnedCacheable(url) ==
    \E g \in FetchSlots :
        /\ worker.fetches[g].pc = "responded"
        /\ worker.fetches[g].url = url
        /\ worker.fetches[g].response.from = "network"
        /\ ~notCached(worker.fetches[g].response)

\* a fetch event arrives: the listener returns without respondWith, or calls
\* caches.match and respondWith
WorkerFetch(f, method, url) ==
    /\ worker.pc = "activated"
    /\ worker.fetchesLeft > 0
    /\ worker.fetches[f].pc = "idle"
    /\ \A g \in FetchSlots : g < f => worker.fetches[g].pc # "idle"
    /\ worker' = [worker EXCEPT
                     !.fetchesLeft = @ - 1,
                     !.fetches[f] =
                         [NoFetch EXCEPT
                             !.pc = IF responds(method, url) THEN "matching"
                                    ELSE "unhandled",
                             !.method = method,
                             !.url = url,
                             !.afterReturn = ReturnedCacheable(url)]]
    /\ WorkerUnchanged

\* caches.match resolves: a hit is the response; a miss calls fetch(request)
WorkerFetchMatched(f) ==
    /\ worker.fetches[f].pc = "matching"
    /\ LET hits == cacheMatch(worker.cache, worker.fetches[f].url)
       IN  IF hits # {}
           THEN \E entry \in hits :
                   worker' = [worker EXCEPT
                                 !.fetches[f].pc = "responded",
                                 !.fetches[f].response =
                                     [from |-> "cache", status |-> 200,
                                      type |-> "basic", body |-> entry.body]]
           ELSE worker' = [worker EXCEPT !.fetches[f].pc = "fetching",
                                         !.fetches[f].requests = @ + 1]
    /\ WorkerUnchanged

\* fetch(request) settles: a response that is not to be cached, or undefined
\* after a failure, is returned; for any other caches.open(...).then(put) is
\* started, not waited for, and the response is returned
WorkerFetchSettled(f, response) ==
    /\ worker.fetches[f].pc = "fetching"
    /\ worker' = [worker EXCEPT
                     !.fetches[f].pc = "responded",
                     !.fetches[f].response = response,
                     !.puts = IF notCached(response) THEN @
                              ELSE @ \cup {[url |-> worker.fetches[f].url,
                                            body |-> response.body]}]
    /\ WorkerUnchanged

\* caches.open(CACHE_NAME) and cache.put(request, responseToCache) take effect
WorkerCachePut(put) ==
    /\ put \in worker.puts
    /\ worker' = [worker EXCEPT
                     !.puts = @ \ {put},
                     !.buckets = @ \cup {CACHE_NAME},
                     !.cache = {entry \in @ : entry.url # put.url} \cup {put}]
    /\ WorkerUnchanged

----------------------------------------------------------------------------
(* App.init *)

\* a probe that never throws
probeSucceeds == FALSE

\* localStorage.setItem('test', 'test') throws
probeThrows == localStore.kind = "blocked"

StorageInit ==
    /\ appPc = "storageInit"
    /\ useIndexedDB' = probeThrows
    /\ appPc' = "taskInit"
    /\ UNCHANGED <<tasks, projects, localStore, indexedStore, procs, nextId,
                   opsLeft, faultsLeft, theme, fcall,
                   bus, router, worker, lastCall>>

TaskManagerInit ==
    /\ appPc = "taskInit"
    /\ \E throws \in MayThrow :
          /\ tasks' = Load(throws).tasks
          /\ faultsLeft' = faultsLeft - Thrown(throws)
    /\ appPc' = "projectInit"
    /\ UNCHANGED <<projects, localStore, indexedStore, useIndexedDB, procs, nextId,
                   opsLeft, theme, fcall,
                   bus, router, worker, lastCall>>

ProjectManagerInit ==
    /\ appPc = "projectInit"
    /\ \E throws \in MayThrow :
          /\ projects' = Load(throws).projects
          /\ faultsLeft' = faultsLeft - Thrown(throws)
    /\ appPc' = "themeInit"
    /\ UNCHANGED <<tasks, localStore, indexedStore, useIndexedDB, procs, nextId,
                   opsLeft, theme, fcall,
                   bus, router, worker, lastCall>>

InitTheme ==
    /\ appPc = "themeInit"
    /\ \E throws \in MayThrow, prefersDark \in {FALSE} :
          LET darkMode == Load(throws).settings.darkMode
          IN  /\ theme' = IF darkMode = "auto"
                          THEN (IF prefersDark THEN "dark" ELSE "light")
                          ELSE darkMode
              /\ faultsLeft' = faultsLeft - Thrown(throws)
    /\ router' = navigate(router, "inbox", Null, tasks, projects, AppClock)
    /\ bus' = [bus EXCEPT !.events = setupEventListeners(@)]
    /\ appPc' = "ready"
    /\ UNCHANGED <<tasks, projects, localStore, indexedStore, useIndexedDB, procs,
                   nextId, opsLeft, fcall, worker, lastCall>>

----------------------------------------------------------------------------
(* TaskManager *)

\* the part of createTask before its await, run by pr
createTaskCall(pr, taskData, throws) ==
    /\ tasks' = Append(tasks, newTask(taskData, nextId, nextId))
    /\ procs' = [procs EXCEPT ![pr.slot] =
                    Suspend(pr.rec, "createTask", nextId, throws)]
    /\ faultsLeft' = faultsLeft - Thrown(throws)
    /\ nextId' = nextId + 1

CreateTask(p, taskData) ==
    /\ CanBegin(p)
    /\ \E throws \in MayThrow :
          createTaskCall([slot |-> p, rec |-> Began("createTask")], taskData, throws)
    /\ opsLeft' = opsLeft - 1
    /\ UNCHANGED <<projects, localStore, indexedStore, useIndexedDB, appPc, theme, fcall,
                   bus, router, worker, lastCall>>

\* the part of updateTask before its await, run by pr; found: getTask(id) is defined
updateTaskCall(pr, id, updates, missingPc, throws) ==
    LET i == IndexOfId(tasks, id)
    IN  IF i = 0
        THEN /\ procs' = [procs EXCEPT ![pr.slot] =
                             Return(pr.rec, "updateTask", id, missingPc, "null")]
             /\ UNCHANGED <<tasks, faultsLeft>>
        ELSE /\ tasks' = [tasks EXCEPT ![i] = ObjectAssign(@, updates)]
             /\ procs' = [procs EXCEPT ![pr.slot] =
                             Suspend(pr.rec, "updateTask", id, throws)]
             /\ faultsLeft' = faultsLeft - Thrown(throws)

\* quickAddTask: the trimmed input is the title; an empty one returns at once
quickAddTitle(input) == trim(input)

QuickAddTask(p, input) ==
    LET title == quickAddTitle(input)
        taskData == [title |-> title, desc |-> <<>>, tags |-> <<>>,
                     projectId |-> Null, due |-> NoDue, status |-> ""]
    IN  /\ CanBegin(p)
        /\ IF title = <<>>
           THEN /\ procs' = [procs EXCEPT ![p] =
                                Return(Began("quickAddTask"), "none", Null, "done", "")]
                /\ UNCHANGED <<tasks, faultsLeft, nextId>>
           ELSE \E throws \in MayThrow :
                    createTaskCall([slot |-> p, rec |-> Began("quickAddTask")],
                                   taskData, throws)
        /\ opsLeft' = opsLeft - 1
        /\ UNCHANGED <<projects, localStore, indexedStore, useIndexedDB, appPc, theme,
                       fcall, bus, router, worker, lastCall>>

\* saveTask reads the form: title and desc trimmed, nothing is refused
formTaskData(form) ==
    [title |-> trim(form.title), desc |-> trim(form.desc), tags |-> form.tags,
     projectId |-> form.projectId, due |-> form.due]

\* saveTask: updateTask(currentTaskId, taskData) when a task is being edited,
\* createTask(taskData) otherwise; the form has no status field
SaveTask(p, currentTaskId, form) ==
    LET taskData == formTaskData(form)
        pr == [slot |-> p, rec |-> Began("saveTask")]
    IN  /\ CanBegin(p)
        /\ IF currentTaskId # Null
           THEN /\ \E throws \in (IF IndexOfId(tasks, currentTaskId) = 0
                                   THEN {FALSE} ELSE MayThrow) :
                      updateTaskCall(pr, currentTaskId, taskData, "awaitOp", throws)
                /\ UNCHANGED nextId
           ELSE \E throws \in MayThrow :
                    createTaskCall(pr, [title |-> taskData.title,
                                        desc |-> taskData.desc,
                                        tags |-> taskData.tags,
                                        projectId |-> taskData.projectId,
                                        due |-> taskData.due,
                                        status |-> ""], throws)
        /\ opsLeft' = opsLeft - 1
        /\ UNCHANGED <<projects, localStore, indexedStore, useIndexedDB, appPc, theme,
                       fcall, bus, router, worker, lastCall>>

UpdateTask(p, id, updates) ==
    /\ CanBegin(p)
    /\ \E throws \in (IF IndexOfId(tasks, id) = 0 THEN {FALSE} ELSE MayThrow) :
          updateTaskCall([slot |-> p, rec |-> Began("updateTask")], id, updates,
                         "done", throws)
    /\ opsLeft' = opsLeft - 1
    /\ UNCHANGED <<projects, localStore, indexedStore, useIndexedDB, appPc, nextId,
                   theme, fcall,
                   bus, router, worker, lastCall>>

DeleteTask(p, id) ==
    /\ CanBegin(p)
    /\ LET i == IndexOfId(tasks, id)
       IN  IF i = 0
           THEN /\ procs' = [procs EXCEPT ![p] =
                                Return(Began("deleteTask"), "deleteTask", id, "done", "")]
                /\ UNCHANGED <<tasks, faultsLeft>>
           ELSE \E throws \in MayThrow :
                   /\ tasks' = RemoveAt(tasks, i)
                   /\ procs' = [procs EXCEPT ![p] =
                                   Suspend(Began("deleteTask"), "deleteTask", id, throws)]
                   /\ faultsLeft' = faultsLeft - Thrown(throws)
    /\ opsLeft' = opsLeft - 1
    /\ UNCHANGED <<projects, localStore, indexedStore, useIndexedDB, appPc, nextId,
                   theme, fcall,
                   bus, router, worker, lastCall>>

ToggleTask(p, id) ==
    /\ CanBegin(p)
    /\ LET i == IndexOfId(tasks, id)
       IN  IF i = 0
           THEN /\ procs' = [procs EXCEPT ![p] =
                                Return(Began("toggleTask"), "toggleTask", id, "done", "")]
                /\ UNCHANGED <<tasks, faultsLeft>>
           ELSE \E throws \in MayThrow :
                   /\ tasks' = [tasks EXCEPT ![i].done = ~@]
                   /\ procs' = [procs EXCEPT ![p] =
                                   Suspend(Began("toggleTask"), "toggleTask", id, throws)]
                   /\ faultsLeft' = faultsLeft - Thrown(throws)
    /\ opsLeft' = opsLeft - 1
    /\ UNCHANGED <<projects, localStore, indexedStore, useIndexedDB, appPc, nextId,
                   theme, fcall,
                   bus, router, worker, lastCall>>

----------------------------------------------------------------------------
(* UIController.moveTask, UIController.toggleDarkMode *)

\* a moveTask that writes the status and leaves the completion flag alone
moveTaskStatusOnly(status) == [status |-> status]

\* the updates moveTask hands to updateTask
moveTaskUpdates(status) == [status |-> status, done |-> (status = "done")]

MoveTask(p, id, status) ==
    /\ CanBegin(p)
    /\ \E throws \in (IF IndexOfId(tasks, id) = 0 THEN {FALSE} ELSE MayThrow) :
          updateTaskCall([slot |-> p, rec |-> [Began("moveTask") EXCEPT !.arg = status]],
                         id, moveTaskUpdates(status), "awaitOp", throws)
    /\ opsLeft' = opsLeft - 1
    /\ UNCHANGED <<projects, localStore, indexedStore, useIndexedDB, appPc, nextId,
                   theme, fcall,
                   bus, router, worker, lastCall>>

ToggleDarkMode(p) ==
    /\ CanBegin(p)
    /\ \E throws \in MayThrow :
          LET currentTheme == IF theme = "" THEN "light" ELSE theme
              newTheme == IF currentTheme = "dark" THEN "light" ELSE "dark"
          IN  /\ theme' = newTheme
              /\ procs' = [procs EXCEPT ![p] =
                              [Suspend(Began("toggleDarkMode"), "toggleDarkMode", Null,
                                       throws) EXCEPT !.arg = newTheme]]
              /\ faultsLeft' = faultsLeft - Thrown(throws)
    /\ opsLeft' = opsLeft - 1
    /\ UNCHANGED <<tasks, projects, localStore, indexedStore, useIndexedDB, appPc,
                   nextId, fcall,
                   bus, router, worker, lastCall>>

----------------------------------------------------------------------------
(* ViewManager.renderKanban: the cards of the three columns *)

\* a board whose done column looks at the status alone
renderKanbanByStatus(projectId) ==
    LET shown == filterTasks(tasks, "inbox", projectId, 0, 0)
        todo(t) == t.status = "todo" /\ ~t.done
        doing(t) == t.status = "doing" /\ ~t.done
        done(t) == t.status = "done"
    IN  [todo |-> SelectSeq(shown, todo), doing |-> SelectSeq(shown, doing),
         done |-> SelectSeq(shown, done)]

\* filterTasks('inbox', projectId) reads no clock
renderKanban(projectId) ==
    LET shown == filterTasks(tasks, "inbox", projectId, 0, 0)
        todo(t) == t.status = "todo" /\ ~t.done
        doing(t) == t.status = "doing" /\ ~t.done
        done(t) == t.status = "done" \/ t.done
    IN  [todo |-> SelectSeq(shown, todo), doing |-> SelectSeq(shown, doing),
         done |-> SelectSeq(shown, done)]

----------------------------------------------------------------------------
(* ProjectManager *)

CreateProject(p, projectData) ==
    /\ CanBegin(p)
    /\ \E throws \in MayThrow :
          /\ projects' = Append(projects, newProject(projectData, nextId))
          /\ procs' = [procs EXCEPT ![p] =
                          Suspend(Began("createProject"), "createProject", nextId, throws)]
          /\ faultsLeft' = faultsLeft - Thrown(throws)
    /\ nextId' = nextId + 1
    /\ opsLeft' = opsLeft - 1
    /\ UNCHANGED <<tasks, localStore, indexedStore, useIndexedDB, appPc, theme, fcall,
                   bus, router, worker, lastCall>>

UpdateProject(p, id, updates) ==
    /\ CanBegin(p)
    /\ LET i == IndexOfId(projects, id)
       IN  IF i = 0
           THEN /\ procs' = [procs EXCEPT ![p] =
                                Return(Began("updateProject"), "updateProject", id,
                                       "done", "null")]
                /\ UNCHANGED <<projects, faultsLeft>>
           ELSE \E throws \in MayThrow :
                   /\ projects' = [projects EXCEPT ![i] = ObjectAssign(@, updates)]
                   /\ procs' = [procs EXCEPT ![p] =
                                   Suspend(Began("updateProject"), "updateProject", id,
                                           throws)]
                   /\ faultsLeft' = faultsLeft - Thrown(throws)
    /\ opsLeft' = opsLeft - 1
    /\ UNCHANGED <<tasks, localStore, indexedStore, useIndexedDB, appPc, nextId,
                   theme, fcall,
                   bus, router, worker, lastCall>>

\* a deleteProject that saves without unassigning the tasks
deleteProjectKeepingTasks(p, rec, throws) ==
    /\ procs' = [procs EXCEPT ![p] = Suspend(rec, "deleteProject", rec.pid, throws)]
    /\ faultsLeft' = faultsLeft - Thrown(throws)
    /\ UNCHANGED tasks

\* deleteProject from the loop on: the next updateTask(task.id, {projectId: null}),
\* or this.save() when no task is left
deleteProjectLoop(p, rec, throws) ==
    IF rec.pend = <<>>
    THEN /\ procs' = [procs EXCEPT ![p] = Suspend(rec, "deleteProject", rec.pid, throws)]
         /\ faultsLeft' = faultsLeft - Thrown(throws)
         /\ UNCHANGED tasks
    ELSE updateTaskCall([slot |-> p, rec |-> [rec EXCEPT !.pend = Tail(@)]],
                        Head(rec.pend), [projectId |-> Null], "awaitOp",
                        throws /\ IndexOfId(tasks, Head(rec.pend)) # 0)

DeleteProject(p, id) ==
    /\ CanBegin(p)
    /\ LET i == IndexOfId(projects, id)
       IN  IF i = 0
           THEN /\ procs' = [procs EXCEPT ![p] =
                                Return(Began("deleteProject"), "deleteProject", id,
                                       "done", "")]
                /\ UNCHANGED <<tasks, projects, faultsLeft>>
           ELSE /\ projects' = RemoveAt(projects, i)
                /\ \E throws \in MayThrow :
                      deleteProjectLoop(p, [Began("deleteProject") EXCEPT
                                               !.pid = id,
                                               !.found = TRUE,
                                               !.refs = IdsInProject(tasks, id),
                                               !.pend = IdsInProject(tasks, id)],
                                        throws)
    /\ opsLeft' = opsLeft - 1
    /\ UNCHANGED <<localStore, indexedStore, useIndexedDB, appPc, nextId, theme, fcall,
                   bus, router, worker, lastCall>>

----------------------------------------------------------------------------
(* The continuations *)

\* save() after await storage.getData(): the assignment and storage.saveData(data)
SaveWrite(p) ==
    /\ procs[p].pc = "awaitGet"
    /\ \E throws \in MayThrow :
          LET data == documentToSave(procs[p])
          IN  /\ IF useIndexedDB
                 THEN /\ indexedStore' = saveData(indexedStore, data, throws)
                      /\ UNCHANGED localStore
                 ELSE /\ localStore' = saveData(localStore, data, throws)
                      /\ UNCHANGED indexedStore
              /\ procs' = [procs EXCEPT ![p].pc = "awaitSave", ![p].saveThrew = throws,
                                        ![p].data = getDefaultData]
              /\ faultsLeft' = faultsLeft - Thrown(throws)
    /\ UNCHANGED <<tasks, projects, useIndexedDB, appPc, nextId, opsLeft, theme, fcall,
                   bus, router, worker, lastCall>>

\* the event the operation of pr emits once its save has returned
emitAfterSave(pr) ==
    IF eventOf(pr.call) = "" THEN pr.emitted
    ELSE Append(pr.emitted, [name |-> eventOf(pr.call), id |-> pr.id])

\* after await storage.saveData(): save() returns, the operation emits and returns
SaveDone(p) ==
    /\ procs[p].pc = "awaitSave"
    /\ procs' = [procs EXCEPT
                    ![p].saves = @ + 1,
                    ![p].emitted = emitAfterSave(procs[p]),
                    ![p].ret = IF procs[p].call \in {"createTask", "updateTask",
                                                     "createProject", "updateProject"}
                               THEN "object" ELSE "",
                    ![p].pc = IF procs[p].op = procs[p].call THEN "done" ELSE "awaitOp"]
    /\ IF eventOf(procs[p].call) = ""
       THEN UNCHANGED <<bus, router>>
       ELSE /\ bus' = emit(bus, eventOf(procs[p].call), {})
            /\ router' = afterCallbacks(router, bus'.calls, tasks, projects, AppClock)
    /\ UNCHANGED <<tasks, projects, localStore, indexedStore, useIndexedDB, appPc,
                   nextId, opsLeft, faultsLeft, theme, fcall, worker, lastCall>>

\* the caller of updateTask after its await: moveTask renders and returns,
\* deleteProject goes on with its loop
HandlerResume(p) ==
    /\ procs[p].pc = "awaitOp"
    /\ IF procs[p].op = "deleteProject"
       THEN /\ \E throws \in MayThrow : deleteProjectLoop(p, procs[p], throws)
            /\ UNCHANGED router
       ELSE /\ procs' = [procs EXCEPT ![p].pc = "done"]
            /\ tasks' = tasksAfterRender(tasks, router.currentView,
                                         router.currentProjectId, AppClock)
            /\ router' = renderView(router, tasks, projects, AppClock)
            /\ UNCHANGED faultsLeft
    /\ UNCHANGED <<projects, localStore, indexedStore, useIndexedDB, appPc, nextId,
                   opsLeft, theme, fcall, bus, worker, lastCall>>

----------------------------------------------------------------------------
(* A call of filterTasks: the arguments, the clock it reads, the collection  *)
(* it is given and what it returns                                          *)

NoCall ==
    [called |-> FALSE, view |-> "", projectId |-> Null, now |-> 0, tz |-> 0,
     input |-> <<>>, out |-> <<>>]

FilterTasks(view, projectId, now, tz) ==
    LET out == filterTasks(tasks, view, projectId, now, tz)
    IN  /\ appPc = "ready"
        /\ fcall' = [called |-> TRUE, view |-> view, projectId |-> projectId,
                     now |-> now, tz |-> tz, input |-> tasks, out |-> out]
        /\ tasks' = IF filtersInPlace(view, projectId) THEN out ELSE tasks
        /\ UNCHANGED <<projects, localStore, indexedStore, useIndexedDB, appPc, procs,
                       nextId, opsLeft, faultsLeft, theme, bus, router, worker,
                       lastCall>>

----------------------------------------------------------------------------
(* The inputs *)

\* ids generated so far
KnownIds == 1..(nextId - 1)
ProjectIds == {projects[i].id : i \in 1..Len(projects)}
TaskIds == {tasks[i].id : i \in 1..Len(tasks)}

\* createTask: the project select offers the projects that exist
TaskDataInputs ==
    [title : {SomeTitle}, desc : {<<>>}, tags : {<<>>},
     projectId : {Null} \cup ProjectIds, due : {NoDue}, status : {"", "done"}]

\* updateTask: a reassignment (saveTask), a status written without the done flag
TaskUpdateInputs ==
    [projectId : {Null} \cup ProjectIds] \cup [status : {"todo"}]

ProjectDataInputs == [view : {"", "kanban"}]
ProjectUpdateInputs == [view : {"list"}]

----------------------------------------------------------------------------
(* The application *)

\* the state the constructors leave
Constructed ==
    /\ tasks = <<>>
    /\ projects = <<>>
    /\ indexedStore = NoDocument
    /\ useIndexedDB = FALSE
    /\ appPc = "storageInit"
    /\ procs = [p \in Slots |-> Idle]
    /\ theme = ""
    /\ fcall = NoCall
    /\ bus = NoEmit
    /\ router = NewRouter
    /\ worker = NoWorker
    /\ lastCall = NoLastCall

\* overlapping operations on a first run, a storage that never throws
Init ==
    /\ Constructed
    /\ localStore = NoDocument
    /\ nextId = 1
    /\ opsLeft = MaxOps
    /\ faultsLeft = 0

\* what an earlier session left: a kanban project with two tasks, one of them
\* completed by toggleTask
SavedDocument ==
    [getDefaultData EXCEPT
        !.projects = <<[id |-> 1, view |-> "kanban"]>>,
        !.tasks = <<[id |-> 2, title |-> SomeTitle, desc |-> <<>>, tags |-> <<>>,
                     projectId |-> 1, due |-> NoDue, done |-> FALSE,
                     created |-> 2, status |-> "doing"],
                    [id |-> 3, title |-> SomeTitle, desc |-> <<>>, tags |-> <<>>,
                     projectId |-> 1, due |-> NoDue, done |-> TRUE,
                     created |-> 3, status |-> "todo"]>>]

\* operations one at a time; localStorage is empty, holds garbage, holds the
\* document of an earlier session or is blocked, and a storage call may throw
InitSeq ==
    /\ Constructed
    /\ localStore \in {NoDocument, Unparsable, Blocked, Stored(SavedDocument)}
    /\ nextId = 1 + Len(localStore.doc.tasks) + Len(localStore.doc.projects)
    /\ opsLeft = MaxSeqOps
    /\ faultsLeft = MaxFaults

Boot == StorageInit \/ TaskManagerInit \/ ProjectManagerInit \/ InitTheme

Begin(p) ==
    \/ \E taskData \in TaskDataInputs : CreateTask(p, taskData)
    \/ \E id \in KnownIds, updates \in TaskUpdateInputs : UpdateTask(p, id, updates)
    \/ \E id \in KnownIds : DeleteTask(p, id)
    \/ \E id \in KnownIds : ToggleTask(p, id)
    \/ \E id \in KnownIds, status \in Statuses : MoveTask(p, id, status)
    \/ ToggleDarkMode(p)
    \/ \E projectData \in ProjectDataInputs : CreateProject(p, projectData)
    \/ \E id \in KnownIds, updates \in ProjectUpdateInputs : UpdateProject(p, id, updates)
    \/ \E id \in KnownIds : DeleteProject(p, id)

Continue(p) == SaveWrite(p) \/ SaveDone(p) \/ HandlerResume(p)

Next == Boot \/ \E p \in Slots : Begin(p) \/ Continue(p)

Spec == Init /\ [][Next]_vars

\* the operations one at a time: none starts while another is in progress
NextSeq == Boot \/ \E p \in Slots : (Quiescent /\ Begin(p)) \/ Continue(p)

SpecSeq == InitSeq /\ [][NextSeq]_vars

----------------------------------------------------------------------------
(* The application with navigation: the operations one at a time, the user  *)
(* going from view to view in between                                        *)

\* Router.navigate(view, projectId) as the nav items and openProject call it
Navigate(view, projectId) ==
    /\ appPc = "ready"
    /\ router' = navigate(router, view, projectId, tasks, projects, AppClock)
    /\ tasks' = tasksAfterRender(tasks, view, projectId, AppClock)
    /\ UNCHANGED <<projects, localStore, indexedStore, useIndexedDB, appPc, procs,
                   nextId, opsLeft, faultsLeft, theme, fcall, bus, worker, lastCall>>

\* what an earlier session left: inbox tasks due today and this week, a
\* completed task of a project due this month
DatedDocument ==
    [getDefaultData EXCEPT
        !.projects = <<[id |-> 1, view |-> "list"]>>,
        !.tasks = <<[id |-> 2, title |-> SomeTitle, desc |-> <<>>, tags |-> <<>>,
                     projectId |-> Null, due |-> 2, done |-> FALSE,
                     created |-> 2, status |-> "todo"],
                    [id |-> 3, title |-> SomeTitle, desc |-> <<>>, tags |-> <<>>,
                     projectId |-> Null, due |-> 5, done |-> FALSE,
                     created |-> 3, status |-> "todo"],
                    [id |-> 4, title |-> SomeTitle, desc |-> <<>>, tags |-> <<>>,
                     projectId |-> 1, due |-> 20, done |-> TRUE,
                     created |-> 4, status |-> "todo"]>>]

\* the nav items name a view, openProject names a project; the id may be of a
\* project that is gone
NavInputs ==
    {[view |-> v, projectId |-> Null] : v \in Views \cup {"projects"}}
        \cup {[view |-> "project", projectId |-> id] : id \in KnownIds}

InitNav ==
    /\ Constructed
    /\ localStore \in {NoDocument, Stored(SavedDocument), Stored(DatedDocument)}
    /\ nextId = 1 + Len(localStore.doc.tasks) + Len(localStore.doc.projects)
    /\ opsLeft = MaxNavOps
    /\ faultsLeft = 0

NextNav ==
    \/ Boot
    \/ \E p \in Slots : (Quiescent /\ Begin(p)) \/ Continue(p)
    \/ \E to \in NavInputs : Navigate(to.view, to.projectId)

SpecNav == InitNav /\ [][NextNav]_vars

----------------------------------------------------------------------------
(* The event bus on its own: subscriptions, removals and emits in any order, *)
(* with callbacks that throw                                                *)

BusEvents == {"task:created", "task:updated"}

BusOn(event, callback) ==
    /\ Len(bus.events[event]) < MaxSubs
    /\ bus' = [bus EXCEPT !.events = on(@, event, callback)]
    /\ UNCHANGED <<tasks, projects, localStore, indexedStore, useIndexedDB, appPc,
                   procs, nextId, opsLeft, faultsLeft, theme, fcall, router, worker,
                   lastCall>>

BusOff(event, callback) ==
    /\ bus' = [bus EXCEPT !.events = off(@, event, callback)]
    /\ UNCHANGED <<tasks, projects, localStore, indexedStore, useIndexedDB, appPc,
                   procs, nextId, opsLeft, faultsLeft, theme, fcall, router, worker,
                   lastCall>>

\* emit with callbacks that do nothing but return or throw
BusEmit(event, throwing) ==
    /\ bus' = emit(bus, event, throwing)
    /\ UNCHANGED <<tasks, projects, localStore, indexedStore, useIndexedDB, appPc,
                   procs, nextId, opsLeft, faultsLeft, theme, fcall, router, worker,
                   lastCall>>

\* at most one of the callbacks throws
ThrowingInputs == {{}} \cup {{callback} : callback \in Callbacks}

InitBus ==
    /\ Constructed
    /\ localStore = NoDocument
    /\ nextId = 1
    /\ opsLeft = 0
    /\ faultsLeft = 0

NextBus ==
    \E event \in BusEvents :
        \/ \E callback \in Callbacks : BusOn(event, callback)
        \/ \E callback \in Callbacks : BusOff(event, callback)
        \/ \E throwing \in ThrowingInputs : BusEmit(event, throwing)

SpecBus == InitBus /\ [][NextBus]_vars

----------------------------------------------------------------------------
(* filterTasks on its own: any collection of at most MaxLen tasks, any view, *)
(* with and without a projectId, at several times of day in several zones   *)

DueInputs == {NoDue, 2, 11}
FilterProjectIds == {Null, 1}
ViewInputs == Views \cup {"all"}

\* [now, tz]: 02:00 UTC of day 2 seen from UTC-5 (local day 1) and from UTC
\* (local day 2), 22:00 UTC of day 2 seen from UTC+5 (local day 3)
ClockInputs ==
    {[now |-> 2 * HoursPerDay + 2, tz |-> -5],
     [now |-> 2 * HoursPerDay + 2, tz |-> 0],
     [now |-> 2 * HoursPerDay + 22, tz |-> 5]}

\* the i-th task of a collection: created in the order of the collection
TaskInputs(i) ==
    [id : {i + 1}, title : {SomeTitle}, desc : {<<>>}, tags : {<<>>},
     projectId : FilterProjectIds, due : DueInputs, done : BOOLEAN,
     created : {i}, status : {"todo"}]

TaskListInputs ==
    UNION {{s \in [1..n -> UNION {TaskInputs(i) : i \in 1..n}] :
               \A i \in 1..n : s[i] \in TaskInputs(i)} : n \in 0..MaxLen}

InitFilter ==
    /\ tasks \in TaskListInputs
    /\ projects = <<>>
    /\ localStore = NoDocument
    /\ indexedStore = NoDocument
    /\ useIndexedDB = FALSE
    /\ appPc = "ready"
    /\ procs = [p \in Slots |-> Idle]
    /\ nextId = MaxLen + 2
    /\ opsLeft = 0
    /\ faultsLeft = 0
    /\ theme = "light"
    /\ fcall = NoCall
    /\ bus = [NoEmit EXCEPT !.events = setupEventListeners(@)]
    /\ router = navigate(NewRouter, "inbox", Null, tasks, projects, AppClock)
    /\ worker = NoWorker
    /\ lastCall = NoLastCall

\* the clock matters to the views that read it
ClocksOf(view, projectId) ==
    IF projectId = Null /\ view = "today" THEN ClockInputs
    ELSE {[now |-> 2 * HoursPerDay + 2, tz |-> 0]}

\* every view, recognized or not, with and without a projectId
ViewsOf(projectId) == ViewInputs

NextFilter ==
    \E projectId \in FilterProjectIds :
        \E view \in ViewsOf(projectId) :
            \E clock \in ClocksOf(view, projectId) :
                FilterTasks(view, projectId, clock.now, clock.tz)

SpecFilter == InitFilter /\ [][NextFilter]_vars

----------------------------------------------------------------------------
(* The application with the quick add bar and the task form, one operation  *)
(* at a time                                                                 *)

\* what is typed into the quick add bar and into the title of the task form:
\* spaces only, or a word with a space around it
QuickAddInputs == {<<" ">>, <<" ", "a">>}
FormInputs ==
    [title : {<<" ">>, <<"b", " ">>}, desc : {<<>>}, tags : {<<>>},
     projectId : {Null}, due : {NoDue}]

\* the task form is opened for a new task or for a task of the collection
BeginForm(p) ==
    \/ \E input \in QuickAddInputs : QuickAddTask(p, input)
    \/ \E currentTaskId \in {Null} \cup TaskIds, form \in FormInputs :
          SaveTask(p, currentTaskId, form)

InitForm ==
    /\ Constructed
    /\ localStore \in {NoDocument, Stored(SavedDocument)}
    /\ nextId = 1 + Len(localStore.doc.tasks) + Len(localStore.doc.projects)
    /\ opsLeft = MaxFormOps
    /\ faultsLeft = 0

NextForm ==
    \/ Boot
    \/ \E p \in Slots : (Quiescent /\ (Begin(p) \/ BeginForm(p))) \/ Continue(p)

SpecForm == InitForm /\ [][NextForm]_vars

----------------------------------------------------------------------------
(* The storage gateway on its own: getData() and then saveData() of what it *)
(* returned, on every state of the selected store                           *)

\* getData(): lastCall keeps the store as it was read and the document returned
StoreGetData ==
    /\ appPc = "ready"
    /\ \E throws \in MayThrow :
          /\ lastCall' = [op |-> "getData", arg |-> throws, input |-> CurrentStore,
                          out |-> Load(throws)]
          /\ faultsLeft' = faultsLeft - Thrown(throws)
    /\ UNCHANGED <<tasks, projects, localStore, indexedStore, useIndexedDB, appPc,
                   procs, nextId, opsLeft, theme, fcall, bus, router, worker>>

\* saveData(data) with the document getData() has just returned
StoreSaveData ==
    /\ appPc = "ready"
    /\ lastCall.op = "getData"
    /\ \E throws \in MayThrow :
          /\ IF useIndexedDB
             THEN /\ indexedStore' = saveData(indexedStore, lastCall.out, throws)
                  /\ UNCHANGED localStore
             ELSE /\ localStore' = saveData(localStore, lastCall.out, throws)
                  /\ UNCHANGED indexedStore
          /\ faultsLeft' = faultsLeft - Thrown(throws)
    /\ lastCall' = [op |-> "saveData",
                    arg |-> [data |-> lastCall.out, readThrew |-> lastCall.arg],
                    input |-> lastCall.input,
                    out |-> IF useIndexedDB THEN indexedStore' ELSE localStore']
    /\ UNCHANGED <<tasks, projects, useIndexedDB, appPc, procs, nextId, opsLeft,
                   theme, fcall, bus, router, worker>>

\* documents the application can have saved
StoreDocuments ==
    {[getDefaultData EXCEPT !.tasks = ts, !.projects = ps, !.settings.darkMode = dm] :
        ts \in {<<>>, SavedDocument.tasks, DatedDocument.tasks,
                <<DatedDocument.tasks[1]>>},
        ps \in {<<>>, SavedDocument.projects},
        dm \in {"auto", "dark", "light"}}

\* after StorageManager.init: localStorage works and is the store, or it is
\* blocked and IndexedDB is
InitStore ==
    /\ localStore \in {NoDocument, Unparsable, Blocked}
                         \cup {Stored(d) : d \in StoreDocuments}
    /\ useIndexedDB = probeThrows
    /\ indexedStore \in (IF useIndexedDB
                          THEN {NoDocument} \cup {Stored(d) : d \in StoreDocuments}
                          ELSE {NoDocument})
    /\ tasks = <<>>
    /\ projects = <<>>
    /\ appPc = "ready"
    /\ procs = [p \in Slots |-> Idle]
    /\ nextId = 1
    /\ opsLeft = 0
    /\ faultsLeft = MaxFaults
    /\ theme = "light"
    /\ fcall = NoCall
    /\ bus = NoEmit
    /\ router = NewRouter
    /\ worker = NoWorker
    /\ lastCall = NoLastCall

NextStore == StoreGetData \/ StoreSaveData

SpecStore == InitStore /\ [][NextStore]_vars

----------------------------------------------------------------------------
(* The service worker on its own: a new version installs and activates over *)
(* any set of buckets earlier versions and other scripts left                *)

BucketNames == {"lifeflow-v0", CACHE_NAME, "lifeflow-v2", "fonts", "images"}

InitWorker ==
    /\ worker \in [pc : {"parsed"}, buckets : SUBSET BucketNames, keys : {{}},
                    pending : {{}}, cache : {{}}, puts : {{}},
                    fetches : {[f \in FetchSlots |-> NoFetch]}, fetchesLeft : {0}]
    /\ tasks = <<>>
    /\ projects = <<>>
    /\ localStore = NoDocument
    /\ indexedStore = NoDocument
    /\ useIndexedDB = FALSE
    /\ appPc = "ready"
    /\ procs = [p \in Slots |-> Idle]
    /\ nextId = 1
    /\ opsLeft = 0
    /\ faultsLeft = 0
    /\ theme = "light"
    /\ fcall = NoCall
    /\ bus = NoEmit
    /\ router = NewRouter
    /\ lastCall = NoLastCall

NextWorker ==
    \/ \E opened \in BOOLEAN : WorkerInstall(opened)
    \/ WorkerActivateKeys
    \/ \E cacheName \in BucketNames : WorkerActivateDelete(cacheName)
    \/ WorkerActivateDone

SpecWorker == InitWorker /\ [][NextWorker]_vars

----------------------------------------------------------------------------
(* Overlapping operations with a task form opened earlier: the project      *)
(* select offers the projects that existed when the form was opened         *)

\* the projects of the collection and those a deleteProject in progress has
\* already removed from it
OfferedProjectIds ==
    ProjectIds \cup {procs[q].pid : q \in {s \in Slots : /\ Active(s)
                                                        /\ procs[s].op = "deleteProject"
                                                        /\ procs[s].found}}

BeginRef(p) ==
    \/ \E projectId \in OfferedProjectIds :
          CreateTask(p, [title |-> SomeTitle, desc |-> <<>>, tags |-> <<>>,
                         projectId |-> projectId, due |-> NoDue, status |-> ""])
    \/ \E id \in TaskIds, projectId \in OfferedProjectIds :
          UpdateTask(p, id, [projectId |-> projectId])
    \/ \E projectData \in ProjectDataInputs : CreateProject(p, projectData)
    \/ \E id \in ProjectIds : DeleteProject(p, id)

InitRef ==
    /\ Constructed
    /\ localStore \in {NoDocument, Stored(SavedDocument)}
    /\ nextId = 1 + Len(localStore.doc.tasks) + Len(localStore.doc.projects)
    /\ opsLeft = MaxRefOps
    /\ faultsLeft = 0

NextRef == Boot \/ \E p \in Slots : BeginRef(p) \/ Continue(p)

SpecRef == InitRef /\ [][NextRef]_vars

----------------------------------------------------------------------------
(* convertToCSV on its own: any collection of at most MaxCsvRows tasks with *)
(* double quotes in their texts, with no project, with a project of the     *)
(* collection and with a project that is not in it                          *)

\* String(field) of a date or a timestamp: its text, which holds no quote
dateText(d) == <<ToString(d)>>

\* task.projectId ? projectManager.getProject(task.projectId)?.name : '' and
\* then String(): the text 'undefined' when no project has the id
csvProject(task, ps) ==
    IF task.projectId = Null THEN <<>>
    ELSE IF IndexOfId(ps, task.projectId) = 0 THEN <<"undefined">>
         ELSE ps[IndexOfId(ps, task.projectId)].name

\* the seven fields of a row, before quoting
csvFields(task, ps) ==
    <<task.title,
      task.desc,
      IF task.due = NoDue THEN <<>> ELSE dateText(task.due),
      csvProject(task, ps),
      join(task.tags, <<";", " ">>),
      IF task.done THEN <<"Yes">> ELSE <<"No">>,
      dateText(task.created)>>

\* `"${String(field).replace(/"/g, '""')}"`
csvQuote(field) == <<Quote>> \o doubleQuotes(field) \o <<Quote>>

csvHeaders == <<<<"Title">>, <<"Description">>, <<"Due Date">>, <<"Project">>,
                <<"Tags">>, <<"Done">>, <<"Created">>>>

\* rows: for each task its quoted fields; text: the header line and the rows,
\* fields joined by commas and lines by line feeds
convertToCSV(ts, ps) ==
    LET rows == [k \in 1..Len(ts) |->
                    [i \in 1..7 |-> csvQuote(csvFields(ts[k], ps)[i])]]
        lines == <<join(csvHeaders, <<",">>)>>
                     \o [k \in 1..Len(ts) |-> join(rows[k], <<",">>)]
    IN  [rows |-> rows, text |-> join(lines, <<"\n">>)]

ConvertToCSV ==
    /\ appPc = "ready"
    /\ lastCall.op = "none"
    /\ lastCall' = [op |-> "convertToCSV", arg |-> projects, input |-> tasks,
                    out |-> convertToCSV(tasks, projects)]
    /\ UNCHANGED <<tasks, projects, localStore, indexedStore, useIndexedDB, appPc,
                   procs, nextId, opsLeft, faultsLeft, theme, fcall, bus, router,
                   worker>>

\* the i-th task of a collection; 9 is the id of a project that was deleted
CsvTaskInputs(i) ==
    [id : {i + 1},
     title : {<<"S", "a", "y", " ", Quote, "h", "i", Quote>>, <<"a">>},
     desc : {<<>>, <<Quote>>},
     tags : {<<>>, <<<<"x">>, <<Quote, "y">>>>},
     projectId : {Null, 1, 9}, due : {IF i = 1 THEN NoDue ELSE 2}, done : BOOLEAN,
     created : {i}, status : {"todo"}]

CsvTaskListInputs ==
    UNION {{s \in [1..n -> UNION {CsvTaskInputs(i) : i \in 1..n}] :
               \A i \in 1..n : s[i] \in CsvTaskInputs(i)} : n \in 0..MaxCsvRows}

CsvProjects == <<[id |-> 1, name |-> <<"P", Quote, "1">>, view |-> "list"]>>

InitCsv ==
    /\ tasks \in CsvTaskListInputs
    /\ projects = CsvProjects
    /\ localStore = NoDocument
    /\ indexedStore = NoDocument
    /\ useIndexedDB = FALSE
    /\ appPc = "ready"
    /\ procs = [p \in Slots |-> Idle]
    /\ nextId = 10
    /\ opsLeft = 0
    /\ faultsLeft = 0
    /\ theme = "light"
    /\ fcall = NoCall
    /\ bus = NoEmit
    /\ router = NewRouter
    /\ worker = NoWorker
    /\ lastCall = NoLastCall

NextCsv == ConvertToCSV

SpecCsv == InitCsv /\ [][NextCsv]_vars

----------------------------------------------------------------------------
(* The rendering paths on their own: what each writes into innerHTML for    *)
(* the texts the user supplied, and in which position                       *)

\* sanitizeHTML: the text is made the textContent of an element and its
\* innerHTML is read back, which writes & < > as entities (each entity one
\* element here) and leaves every other character, the double quote included
RECURSIVE sanitizeHTML(_)
sanitizeHTML(str) ==
    IF str = <<>> THEN <<>>
    ELSE <<CASE Head(str) = "&" -> "&amp;"
             [] Head(str) = "<" -> "&lt;"
             [] Head(str) = ">" -> "&gt;"
             [] OTHER -> Head(str)>> \o sanitizeHTML(Tail(str))

\* one interpolation of a user text into a template: the field, the position
\* the template puts it in, and the characters written
Inserted(field, position, markup) ==
    [field |-> field, position |-> position, markup |-> markup]

\* renderTaskItem: title, desc when there is one, the project's color inside
\* the style attribute and its name, the tags
renderTaskItem(task, ps) ==
    LET i == IF task.projectId = Null THEN 0 ELSE IndexOfId(ps, task.projectId)
    IN  <<Inserted("title", "content", sanitizeHTML(task.title))>>
            \o (IF task.desc = <<>> THEN <<>>
                ELSE <<Inserted("desc", "content", sanitizeHTML(task.desc))>>)
            \o (IF i = 0 THEN <<>>
                ELSE <<Inserted("color", "attribute", ps[i].color),
                       Inserted("name", "content", sanitizeHTML(ps[i].name))>>)
            \o [k \in 1..Len(task.tags) |->
                   Inserted("tag", "content", sanitizeHTML(task.tags[k]))]

\* renderKanbanCard: title, and desc when there is one
renderKanbanCard(task) ==
    <<Inserted("title", "content", sanitizeHTML(task.title))>>
        \o (IF task.desc = <<>> THEN <<>>
            ELSE <<Inserted("desc", "content", sanitizeHTML(task.desc))>>)

\* renderProjects: for each project its color inside the style attribute and
\* its name
renderProjects(ps) ==
    [k \in 1..(2 * Len(ps)) |->
        IF k % 2 = 1
        THEN Inserted("color", "attribute", ps[(k + 1) \div 2].color)
        ELSE Inserted("name", "content", sanitizeHTML(ps[k \div 2].name))]

\* populateProjectSelect: the name of each project as the text of an option
populateProjectSelect(ps) ==
    [k \in 1..Len(ps) |-> Inserted("name", "content", sanitizeHTML(ps[k].name))]

\* renderTags and addTag: the tag as the text of a chip
renderTags(tags) ==
    [k \in 1..Len(tags) |-> Inserted("tag", "content", sanitizeHTML(tags[k]))]

\* renderSubtasks: the text inside the value attribute of an input
renderSubtasks(subtasks) ==
    [k \in 1..Len(subtasks) |->
        Inserted("subtask", "attribute", sanitizeHTML(subtasks[k].text))]

Rendered(op, out) ==
    /\ appPc = "ready"
    /\ lastCall' = [op |-> op, arg |-> projects, input |-> tasks, out |-> out]
    /\ UNCHANGED <<tasks, projects, localStore, indexedStore, useIndexedDB, appPc,
                   procs, nextId, opsLeft, faultsLeft, theme, fcall, bus, router,
                   worker>>

RenderTaskItem == \E k \in 1..Len(tasks) :
    Rendered("renderTaskItem", renderTaskItem(tasks[k], projects))
RenderKanbanCard == \E k \in 1..Len(tasks) :
    Rendered("renderKanbanCard", renderKanbanCard(tasks[k]))
RenderProjects == Rendered("renderProjects", renderProjects(projects))
PopulateProjectSelect ==
    Rendered("populateProjectSelect", populateProjectSelect(projects))
RenderTags == \E k \in 1..Len(tasks) :
    Rendered("renderTags", renderTags(tasks[k].tags))
RenderSubtasks == \E k \in 1..Len(tasks) :
    Rendered("renderSubtasks", renderSubtasks(tasks[k].subtasks))

\* texts a user can type: plain, with markup, with a double quote, with an
\* ampersand
TextInputs ==
    {<<"a">>, <<"<", "b", ">">>, <<"x", Quote, " ", "y", "=", Quote>>, <<"&", "c">>}
ColorInputs == {<<"#3b82f6">>, <<"red", Quote, " ", "x", "=", Quote>>}

MarkupTaskInputs ==
    [id : {2}, title : TextInputs, desc : {<<>>, <<"<", "b", ">">>},
     tags : {<<>>, <<<<"a">>, <<"&", "c">>>>},
     subtasks : {<<>>} \cup {<<[id |-> 3, text |-> text, done |-> FALSE]>> :
                                text \in TextInputs},
     projectId : {Null, 1}, due : {NoDue}, done : {FALSE}, created : {1},
     status : {"todo"}]

MarkupProjectInputs ==
    [id : {1}, name : {<<"a">>, <<"<", "b", ">">>}, color : ColorInputs,
     view : {"list"}]

InitMarkup ==
    /\ \E task \in MarkupTaskInputs : tasks = <<task>>
    /\ \E project \in MarkupProjectInputs : projects = <<project>>
    /\ localStore = NoDocument
    /\ indexedStore = NoDocument
    /\ useIndexedDB = FALSE
    /\ appPc = "ready"
    /\ procs = [p \in Slots |-> Idle]
    /\ nextId = 4
    /\ opsLeft = 0
    /\ faultsLeft = 0
    /\ theme = "light"
    /\ fcall = NoCall
    /\ bus = NoEmit
    /\ router = NewRouter
    /\ worker = NoWorker
    /\ lastCall = NoLastCall

NextMarkup ==
    \/ RenderTaskItem
    \/ RenderKanbanCard
    \/ RenderProjects
    \/ PopulateProjectSelect
    \/ RenderTags
    \/ RenderSubtasks

SpecMarkup == InitMarkup /\ [][NextMarkup]_vars

----------------------------------------------------------------------------
(* The fetch listener of the activated service worker: requests of several  *)
(* methods and schemes, for an asset that install cached and for one it did *)
(* not, with the network answering in every way                             *)

AssetUrl == <<"h", "t", "t", "p", "s", ":", "/", "a">>
PageUrl == <<"h", "t", "t", "p", ":", "/", "b">>
ExtensionUrl == <<"c", "h", "r", "o", "m", "e", ":", "/", "a">>

MethodInputs == {"GET", "POST"}
UrlInputs == {AssetUrl, PageUrl, ExtensionUrl}

\* what fetch() can settle with: 200, 404, a response of type error, a failure
NetworkInputs ==
    {[from |-> "network", status |-> 200, type |-> "basic", body |-> "new"],
     [from |-> "network", status |-> 404, type |-> "basic", body |-> "none"],
     [from |-> "network", status |-> 0, type |-> "error", body |-> ""],
     Undefined}

InitFetch ==
    /\ worker \in [pc : {"activated"}, buckets : {{CACHE_NAME}}, keys : {{CACHE_NAME}},
                   pending : {{}},
                   cache : {{}, {[url |-> AssetUrl, body |-> "old"]}},
                   puts : {{}}, fetches : {[f \in FetchSlots |-> NoFetch]},
                   fetchesLeft : {MaxFetches}]
    /\ tasks = <<>>
    /\ projects = <<>>
    /\ localStore = NoDocument
    /\ indexedStore = NoDocument
    /\ useIndexedDB = FALSE
    /\ appPc = "ready"
    /\ procs = [p \in Slots |-> Idle]
    /\ nextId = 1
    /\ opsLeft = 0
    /\ faultsLeft = 0
    /\ theme = "light"
    /\ fcall = NoCall
    /\ bus = NoEmit
    /\ router = NewRouter
    /\ lastCall = NoLastCall

NextFetch ==
    \/ \E f \in FetchSlots, method \in MethodInputs, url \in UrlInputs :
          WorkerFetch(f, method, url)
    \/ \E f \in FetchSlots : WorkerFetchMatched(f)
    \/ \E f \in FetchSlots, response \in NetworkInputs : WorkerFetchSettled(f, response)
    \/ \E put \in worker.puts : WorkerCachePut(put)

SpecFetch == InitFetch /\ [][NextFetch]_vars

----------------------------------------------------------------------------
(* searchTasks on its own: any collection of at most MaxLen tasks whose     *)
(* titles, descriptions and tags mix the cases, any query                    *)

SearchTasks(query) ==
    /\ appPc = "ready"
    /\ lastCall' = [op |-> "searchTasks", arg |-> query, input |-> tasks,
                    out |-> searchTasks(tasks, query)]
    /\ UNCHANGED <<tasks, projects, localStore, indexedStore, useIndexedDB, appPc,
                   procs, nextId, opsLeft, faultsLeft, theme, fcall, bus, router,
                   worker>>

TitleInputs == {<<"B", "a">>, <<"a", "b">>}
DescInputs == {<<>>, <<"a", " ", "B">>}
TagsInputs == {<<>>, <<<<"b">>, <<"A", "b">>>>}
QueryInputs == {<<>>, <<"a">>, <<"A", "B">>, <<"b", "a">>, <<" ", "b">>, <<"b", "b">>}

\* the i-th task of a collection; the first is done and the last is due, so
\* that the order of filterTasks is not the order of the collection
SearchTaskInputs(i) ==
    [id : {i + 1}, title : TitleInputs, desc : DescInputs, tags : TagsInputs,
     projectId : {Null}, due : {IF i = 1 THEN NoDue ELSE 2}, done : {i = 1},
     created : {i}, status : {"todo"}]

SearchTaskListInputs ==
    UNION {{s \in [1..n -> UNION {SearchTaskInputs(i) : i \in 1..n}] :
               \A i \in 1..n : s[i] \in SearchTaskInputs(i)} : n \in 0..MaxLen}

InitSearch ==
    /\ tasks \in SearchTaskListInputs
    /\ projects = <<>>
    /\ localStore = NoDocument
    /\ indexedStore = NoDocument
    /\ useIndexedDB = FALSE
    /\ appPc = "ready"
    /\ procs = [p \in Slots |-> Idle]
    /\ nextId = MaxLen + 2
    /\ opsLeft = 0
    /\ faultsLeft = 0
    /\ theme = "light"
    /\ fcall = NoCall
    /\ bus = [NoEmit EXCEPT !.events = setupEventListeners(@)]
    /\ router = navigate(NewRouter, "inbox", Null, tasks, projects, AppClock)
    /\ worker = NoWorker
    /\ lastCall = NoLastCall

NextSearch == \E query \in QueryInputs : SearchTasks(query)

SpecSearch == InitSearch /\ [][NextSearch]_vars

----------------------------------------------------------------------------
(* Properties of the managers and of the storage gateway *)

TaskOps == {"createTask", "updateTask", "deleteTask", "toggleTask"}
ProjectOps == {"createProject", "updateProject", "deleteProject"}

\* the document a getData() made now would return when nothing throws
Persisted == Load(FALSE)
IdsOf(s) == {s[i].id : i \in 1..Len(s)}

\* C1: once deleteProject(P) has completed, with the operations one at a time,
\* no task has projectId = P, every task that had it has projectId = null, and
\* P is not among the projects
DeleteProjectUnassigns ==
    \A p \in Slots :
        LET pr == procs[p]
        IN  (pr.op = "deleteProject" /\ pr.pc = "done" /\ pr.found) =>
                /\ \A i \in 1..Len(tasks) : tasks[i].projectId # pr.pid
                /\ \A k \in 1..Len(pr.refs) :
                      /\ IndexOfId(tasks, pr.refs[k]) # 0
                      /\ tasks[IndexOfId(tasks, pr.refs[k])].projectId = Null
                /\ pr.pid \notin ProjectIds

\* C1: deleteProject has completed for a project that two tasks referenced
DeleteProjectWitness ==
    \E p \in Slots :
        /\ procs[p].op = "deleteProject" /\ procs[p].pc = "done" /\ procs[p].found
        /\ Len(procs[p].refs) = 2
        /\ procs[p].emitted # <<>>

\* the steps of the operation in slot p
Begins(p) == procs'[p].pc = "awaitGet" /\ ~Active(p)
Writes(p) == procs[p].pc = "awaitGet" /\ procs'[p].pc = "awaitSave"
Resumes(p) == procs[p].pc = "awaitSave" /\ procs'[p].pc # "awaitSave"

\* the store in use after the step
CurrentStoreAfter == IF useIndexedDB THEN indexedStore' ELSE localStore'

\* what the call that begins in slot p has done to the tasks in memory
MemoryEffect(p) ==
    LET id == procs'[p].id
    IN  CASE procs'[p].op = "createTask" -> id \notin IdsOf(tasks) /\ id \in IdsOf(tasks')
          [] procs'[p].op = "deleteTask" -> id \in IdsOf(tasks) /\ id \notin IdsOf(tasks')
          [] procs'[p].op = "toggleTask" ->
                 tasks'[IndexOfId(tasks', id)].done = ~tasks[IndexOfId(tasks, id)].done
          [] OTHER -> id \in IdsOf(tasks) /\ id \in IdsOf(tasks')

\* C7: createTask, updateTask, deleteTask and toggleTask on an existing task
\* first change the tasks in memory, with no write and no event; then write the
\* whole document, with the tasks as they are in memory, and still no event;
\* and only when the write has returned emit one event, named after the
\* operation and carrying the task; no other step of the operation emits
TaskStepOrder(p) ==
    procs'[p].op \in TaskOps =>
        /\ Begins(p) =>
              /\ MemoryEffect(p)
              /\ UNCHANGED <<localStore, indexedStore>>
              /\ procs'[p].emitted = <<>> /\ procs'[p].saves = 0
        /\ Writes(p) =>
              /\ CurrentStoreAfter = Stored([procs[p].data EXCEPT !.tasks = tasks])
              /\ UNCHANGED tasks
              /\ procs'[p].emitted = <<>> /\ procs'[p].saves = 0
        /\ Resumes(p) =>
              /\ procs'[p].pc = "done"
              /\ procs'[p].saves = 1
              /\ procs'[p].emitted =
                     <<[name |-> eventOf(procs[p].op), id |-> procs[p].id]>>
              /\ UNCHANGED <<localStore, indexedStore>>
        /\ procs'[p].emitted # procs[p].emitted =>
              (Resumes(p) \/ (~Active(p) /\ procs'[p].emitted = <<>>))

MutateWriteEmit == [][\A p \in Slots : TaskStepOrder(p)]_vars

\* C7: deleteTask has completed on an existing task: the task is gone from
\* memory and from the stored document, and one task:deleted event is out
MutateWriteEmitWitness ==
    \E p \in Slots :
        /\ procs[p].op = "deleteTask" /\ procs[p].pc = "done" /\ procs[p].found
        /\ procs[p].emitted = <<[name |-> "task:deleted", id |-> procs[p].id]>>
        /\ procs[p].id \notin IdsOf(tasks)
        /\ CurrentStore.kind = "doc" /\ procs[p].id \notin IdsOf(CurrentStore.doc.tasks)

\* what getData must return when called in this state
Expected(threw) ==
    IF threw \/ CurrentStore.kind # "doc" THEN getDefaultData ELSE CurrentStore.doc

\* C8: every getData() returns to its caller, in either store: the default
\* document when nothing is stored or the read or the parse throws, the stored
\* document otherwise
GetDataStep ==
    /\ \A p \in Slots :
          (procs'[p].pc = "awaitGet" /\ procs[p].pc # "awaitGet") =>
              procs'[p].data = Expected(procs'[p].readThrew)
    /\ (appPc = "taskInit" /\ appPc' # appPc) =>
          tasks' = Expected(faultsLeft' < faultsLeft).tasks
    /\ (appPc = "projectInit" /\ appPc' # appPc) =>
          projects' = Expected(faultsLeft' < faultsLeft).projects

GetDataReturns == [][GetDataStep]_vars

\* C8: a getData() on IndexedDB that holds a document, whose read threw, has
\* handed the default document to a save() that goes on
GetDataWitness ==
    \E p \in Slots :
        /\ procs[p].pc = "awaitGet" /\ procs[p].readThrew
        /\ useIndexedDB /\ indexedStore.kind = "doc"
        /\ indexedStore.doc # getDefaultData
        /\ procs[p].data = getDefaultData

\* C11: init selects IndexedDB exactly when the probe write to localStorage
\* throws; after init the selection never changes; every getData returns what
\* the selected store holds and every saveData leaves the other store alone
StorageRoutingStep ==
    /\ (appPc = "storageInit" /\ appPc' # appPc) =>
          (useIndexedDB' <=> localStore.kind = "blocked")
    /\ appPc # "storageInit" =>
          /\ useIndexedDB' = useIndexedDB
          /\ IF useIndexedDB THEN localStore' = localStore
                              ELSE indexedStore' = indexedStore
          /\ \A p \in Slots :
                (procs'[p].pc = "awaitGet" /\ procs[p].pc # "awaitGet"
                    /\ ~procs'[p].readThrew) =>
                    LET selected == IF useIndexedDB THEN indexedStore ELSE localStore
                    IN  procs'[p].data =
                            IF selected.kind = "doc" THEN selected.doc ELSE getDefaultData

StorageRouting == [][StorageRoutingStep]_vars

\* C11: the probe threw, IndexedDB was selected, an operation has saved its
\* document there and a later one has read it back, localStorage untouched
StorageRoutingWitness ==
    /\ useIndexedDB /\ appPc = "ready"
    /\ localStore = Blocked
    /\ indexedStore.kind = "doc"
    /\ \E p \in Slots :
          /\ procs[p].pc = "awaitGet"
          /\ procs[p].data = indexedStore.doc
          /\ procs[p].data # getDefaultData

\* C9: a write that throws leaves both stores and the memory as they were and
\* save() returns; the operation then goes on as after a write that worked:
\* it emits its event and keeps what it changed in memory
FailedWriteStep(p) ==
    /\ (Writes(p) /\ procs'[p].saveThrew) =>
          UNCHANGED <<localStore, indexedStore, tasks, projects>>
    /\ (procs[p].pc = "awaitSave" /\ procs[p].saveThrew /\ procs'[p] # procs[p]) =>
          /\ procs'[p].pc \in {"done", "awaitOp"}
          /\ procs'[p].pc = "done" <=> procs[p].call = procs[p].op
          /\ eventOf(procs[p].call) # "" =>
                procs'[p].emitted =
                    Append(procs[p].emitted,
                           [name |-> eventOf(procs[p].call), id |-> procs[p].id])
          /\ UNCHANGED <<localStore, indexedStore, tasks, projects>>

FailedWriteIsSwallowed == [][\A p \in Slots : FailedWriteStep(p)]_vars

\* C9: createTask has completed though its write threw: the task is in memory,
\* its event is out, the stored document does not have it
FailedWriteWitness ==
    \E p \in Slots :
        /\ procs[p].op = "createTask" /\ procs[p].pc = "done" /\ procs[p].saveThrew
        /\ procs[p].id \in IdsOf(tasks)
        /\ procs[p].emitted = <<[name |-> "task:created", id |-> procs[p].id]>>
        /\ procs[p].id \notin IdsOf(Persisted.tasks)

\* C10: when every operation has completed and the stored document differs
\* from memory in its tasks or its projects, an operation was started while
\* another was in progress: the loss comes from the overlap of two
\* load-then-save sequences
LossNeedsOverlap ==
    (Quiescent /\ appPc = "ready"
        /\ (Persisted.tasks # tasks \/ Persisted.projects # projects))
    => \E p \in Slots : procs[p].overlapped

\* C10: a task operation and a project operation that overlapped have both
\* completed and saved, and the stored document has the projects as in memory
\* but not the tasks
LostUpdateWitness ==
    \E p, q \in Slots :
        /\ procs[p].op \in TaskOps /\ procs[p].pc = "done" /\ procs[p].saves = 1
        /\ procs[q].op \in ProjectOps /\ procs[q].pc = "done" /\ procs[q].saves = 1
        /\ procs[q].overlapped
        /\ Persisted.projects = projects
        /\ Persisted.tasks # tasks

----------------------------------------------------------------------------
(* Properties of the event bus, under SpecBus *)

\* the position of the first callback of subs that throws, 0 when none does
FirstThrowing(subs, throwing) ==
    IF \E i \in 1..Len(subs) : subs[i] \in throwing
    THEN CHOOSE i \in 1..Len(subs) :
             subs[i] \in throwing /\ \A j \in 1..(i - 1) : subs[j] \notin throwing
    ELSE 0

\* C17: emit(name) calls the callbacks subscribed to name, once for each
\* subscription and in the order of subscription, within the emit; when one
\* throws, those subscribed after it are not called and emit throws
EmitStep ==
    (bus' # bus /\ bus'.events = bus.events) =>
        LET subs == bus.events[bus'.event]
            k == FirstThrowing(subs, bus'.throwing)
        IN  IF k = 0
            THEN bus'.calls = subs /\ ~bus'.threw
            ELSE bus'.calls = SubSeq(subs, 1, k) /\ bus'.threw

EmitInOrder == [][EmitStep]_vars

\* C17: an emit to two subscriptions of which the first threw: one call
EmitWitness ==
    /\ bus.event # ""
    /\ Len(bus.events[bus.event]) = 2
    /\ bus.events[bus.event][1] \in bus.throwing
    /\ bus.events[bus.event][2] \notin bus.throwing
    /\ bus.calls = <<bus.events[bus.event][1]>>
    /\ bus.threw

----------------------------------------------------------------------------
(* Properties of the router, under SpecNav *)

\* a step that is a call of navigate to another view or project
Navigates ==
    /\ appPc = "ready"
    /\ \/ router'.currentView # router.currentView
       \/ router'.currentProjectId # router.currentProjectId

\* the view-mode of the project the router is at, "" when there is none
ViewModeAfter ==
    IF IndexOfId(projects', router'.currentProjectId) = 0 THEN ""
    ELSE projects'[IndexOfId(projects', router'.currentProjectId)].view

\* C18: after navigate(view, projectId) exactly one display is visible: the
\* kanban when projectId is set and the project is in kanban mode, the task
\* list when it is set and the project is in list mode, the project list
\* when it is not set and view = 'projects', the task list otherwise; and so
\* for a projectId whose project is gone
NavigateShowsOneDisplayStep ==
    Navigates =>
        /\ Cardinality(router'.visible) = 1
        /\ IF router'.currentProjectId # Null
           THEN /\ ViewModeAfter = "kanban" => router'.visible = {"kanbanView"}
                /\ ViewModeAfter = "list" => router'.visible = {"taskListView"}
           ELSE IF router'.currentView = "projects"
                THEN router'.visible = {"projectsView"}
                ELSE router'.visible = {"taskListView"}

NavigateShowsOneDisplay == [][NavigateShowsOneDisplayStep]_vars

\* the counts as the claim states them
OpenMatching(ts, view) ==
    Cardinality({i \in 1..Len(ts) :
                    ~ts[i].done /\ matchesView(ts[i], view, Null, AppClock.now,
                                               AppClock.tz)})

\* a step in which an event is delivered to the listeners of App
DeliversEvent ==
    \E p \in Slots :
        /\ procs'[p].emitted # procs[p].emitted
        /\ procs'[p].emitted # <<>>

\* C19: once App.init has finished, after every navigation and after every
\* task or project event the counts shown for inbox, today, week and month
\* are the numbers of incomplete tasks in memory that the view selects, and
\* the projects count is the number of projects
CountsStep ==
    ((appPc' = "ready" /\ appPc # "ready") \/ Navigates \/ DeliversEvent) =>
        /\ router'.counts.inbox = OpenMatching(tasks', "inbox")
        /\ router'.counts.today = OpenMatching(tasks', "today")
        /\ router'.counts.week = OpenMatching(tasks', "week")
        /\ router'.counts.month = OpenMatching(tasks', "month")
        /\ router'.counts.projects = Len(projects')

CountsFollowMemory == [][CountsStep]_vars

\* C19: toggleTask has completed a task that was due today and its event has
\* been delivered: today shows none, the week one, with a project counted
CountsWitness ==
    /\ \E p \in Slots :
          /\ procs[p].op = "toggleTask" /\ procs[p].pc = "done"
          /\ procs[p].emitted # <<>>
          /\ IndexOfId(tasks, procs[p].id) # 0
          /\ tasks[IndexOfId(tasks, procs[p].id)].done
          /\ tasks[IndexOfId(tasks, procs[p].id)].due = 2
    /\ router.counts.today = 0
    /\ router.counts.week = 1
    /\ router.counts.projects = 1

----------------------------------------------------------------------------
(* Properties of the kanban board *)

\* the cards of task id in a column, the columns that show it
Cards(column, id) == {i \in 1..Len(column) : column[i].id = id}
ColumnsShowing(board, id) == {c \in Statuses : Cards(board[c], id) # {}}
CardCount(board, id) ==
    Cardinality(Cards(board.todo, id)) + Cardinality(Cards(board.doing, id))
        + Cardinality(Cards(board.done, id))

\* the task with this id
TaskOf(id) == tasks[IndexOfId(tasks, id)]

\* the column a task belongs to
ColumnOf(t) == IF t.done \/ t.status = "done" THEN "done" ELSE t.status

\* C5: once moveTask(id, s) on an existing task has completed, with the
\* operations one at a time, the task has status s and done = (s = 'done') and
\* the board of its project shows it in column s and in no other; a task that
\* createTask has just made with status 'todo' is shown in the todo column only
MoveTaskPlacesTask ==
    \A p \in Slots :
        LET pr == procs[p]
        IN  /\ (pr.op = "moveTask" /\ pr.pc = "done" /\ pr.found) =>
                  /\ IndexOfId(tasks, pr.id) # 0
                  /\ TaskOf(pr.id).status = pr.arg
                  /\ TaskOf(pr.id).done = (pr.arg = "done")
                  /\ TaskOf(pr.id).projectId # Null =>
                        /\ ColumnsShowing(renderKanban(TaskOf(pr.id).projectId), pr.id)
                               = {pr.arg}
                        /\ CardCount(renderKanban(TaskOf(pr.id).projectId), pr.id) = 1
            /\ (pr.op = "createTask" /\ pr.pc = "done"
                    /\ IndexOfId(tasks, pr.id) # 0
                    /\ TaskOf(pr.id).status = "todo"
                    /\ TaskOf(pr.id).projectId # Null) =>
                  ColumnsShowing(renderKanban(TaskOf(pr.id).projectId), pr.id) = {"todo"}

\* C5: moveTask(id, 'done') has completed on a task that createTask made in a
\* project in this run, and the board shows the task in the done column
MoveTaskWitness ==
    \E p \in Slots :
        /\ procs[p].op = "moveTask" /\ procs[p].pc = "done" /\ procs[p].found
        /\ procs[p].arg = "done"
        /\ TaskOf(procs[p].id).projectId # Null
        /\ TaskOf(procs[p].id).done
        /\ procs[p].id \notin
               {SavedDocument.tasks[i].id : i \in 1..Len(SavedDocument.tasks)}
        /\ Cards(renderKanban(TaskOf(procs[p].id).projectId).done, procs[p].id) # {}

\* C6: whatever operations have run, the board of a project shows every task
\* of the project exactly once: in the done column when done is set or the
\* status is 'done', otherwise in the column its status names
KanbanShowsEachTaskOnce ==
    \A projectId \in KnownIds :
        \A i \in 1..Len(tasks) :
            tasks[i].projectId = projectId =>
                /\ CardCount(renderKanban(projectId), tasks[i].id) = 1
                /\ ColumnsShowing(renderKanban(projectId), tasks[i].id)
                       = {ColumnOf(tasks[i])}

\* C6: a task of a project that toggleTask completed while its status stayed
\* 'todo', shown in the done column
KanbanWitness ==
    \E i \in 1..Len(tasks) :
        /\ tasks[i].projectId # Null
        /\ tasks[i].done /\ tasks[i].status = "todo"
        /\ \E p \in Slots : procs[p].op = "toggleTask" /\ procs[p].pc = "done"
                                /\ procs[p].id = tasks[i].id
        /\ ColumnsShowing(renderKanban(tasks[i].projectId), tasks[i].id) = {"done"}

----------------------------------------------------------------------------
(* Properties of filterTasks, under SpecFilter *)

\* the positions of the last result, and the pairs i before j
OutPositions == 1..Len(fcall.out)
Dated(t) == t.due # NoDue

\* C2 as stated: in the result of filterTasks, for every view and with or
\* without a projectId, no undated task comes before a dated task, whatever
\* the completion flags of the two
UndatedAfterEveryDated ==
    fcall.called =>
        \A i, j \in OutPositions :
            i < j => ~(~Dated(fcall.out[i]) /\ Dated(fcall.out[j]))

\* C2 as the code has it: in the result of filterTasks, for every view and with
\* or without a projectId, no undated task comes before a dated task that has
\* the same completion flag
UndatedAfterDatedOfSameFlag ==
    fcall.called =>
        \A i, j \in OutPositions :
            (i < j /\ fcall.out[i].done = fcall.out[j].done)
                => ~(~Dated(fcall.out[i]) /\ Dated(fcall.out[j]))

\* C2: a call with a projectId on a collection that has an undated task before a
\* dated one of the same flag, both kept, and returns them the other way round
UndatedAfterDatedWitness ==
    /\ fcall.called
    /\ fcall.projectId # Null
    /\ \E i, j \in OutPositions :
          /\ i < j
          /\ fcall.out[i].done = fcall.out[j].done
          /\ Dated(fcall.out[i]) /\ ~Dated(fcall.out[j])
          /\ IndexOfId(fcall.input, fcall.out[j].id) <
                 IndexOfId(fcall.input, fcall.out[i].id)

\* C3: the result of filterTasks has every incomplete task before every
\* complete one; among tasks of the same completion flag the dated ones are in
\* ascending due order and before the undated ones, and the undated ones are
\* in descending order of creation
SortOrder ==
    fcall.called =>
        \A i, j \in OutPositions :
            i < j =>
                LET a == fcall.out[i]
                    b == fcall.out[j]
                IN  /\ ~(a.done /\ ~b.done)
                    /\ a.done = b.done =>
                          /\ (Dated(a) /\ Dated(b)) => a.due <= b.due
                          /\ ~(~Dated(a) /\ Dated(b))
                          /\ (~Dated(a) /\ ~Dated(b)) => a.created >= b.created

\* C3: a result of three tasks of one flag, a dated one and then two undated
\* ones, the newer first, from a collection that had them in another order
SortOrderWitness ==
    /\ fcall.called
    /\ Len(fcall.out) = 3
    /\ fcall.out[1].done = fcall.out[3].done /\ fcall.out[2].done = fcall.out[3].done
    /\ Dated(fcall.out[1]) /\ ~Dated(fcall.out[2]) /\ ~Dated(fcall.out[3])
    /\ fcall.out[2].created > fcall.out[3].created
    /\ fcall.out # fcall.input

\* the tasks of a sequence that satisfy a condition, as a set (ids are unique)
InputTasks == {fcall.input[i] : i \in 1..Len(fcall.input)}
OutTasks == {fcall.out[i] : i \in 1..Len(fcall.out)}
NoDuplicates(s) == \A i, j \in 1..Len(s) : s[i] = s[j] => i = j

\* C14: filterTasks('inbox') with no projectId returns exactly the tasks whose
\* project reference is empty, each once, so a task with no project and no due
\* date is in it; filterTasks('today') with no projectId returns no task
\* without a due date
InboxIsNoProject ==
    (fcall.called /\ fcall.projectId = Null) =>
        /\ fcall.view = "inbox" =>
              /\ OutTasks = {t \in InputTasks : t.projectId = Null}
              /\ NoDuplicates(fcall.out)
        /\ fcall.view = "today" => \A t \in OutTasks : t.due # NoDue

\* C14: an inbox call on a collection holding a task with no project and no
\* due date, which is returned, and a task of a project, which is not
InboxWitness ==
    /\ fcall.called /\ fcall.projectId = Null /\ fcall.view = "inbox"
    /\ \E t \in OutTasks : t.projectId = Null /\ t.due = NoDue
    /\ \E t \in InputTasks : t.projectId # Null /\ t \notin OutTasks

\* C15: with a projectId, filterTasks returns exactly the tasks whose projectId
\* equals it, each once, whatever the view
ProjectIgnoresView ==
    (fcall.called /\ fcall.projectId # Null) =>
        /\ OutTasks = {t \in InputTasks : t.projectId = fcall.projectId}
        /\ NoDuplicates(fcall.out)

\* C15: a call for a project under the view 'today' that returns a task of the
\* project with no due date and leaves out a task due today of no project
ProjectIgnoresViewWitness ==
    /\ fcall.called /\ fcall.projectId # Null /\ fcall.view = "today"
    /\ \E t \in OutTasks : t.projectId = fcall.projectId /\ t.due = NoDue
    /\ \E t \in InputTasks :
          /\ t.projectId = Null
          /\ isToday(t.due, fcall.now, fcall.tz)
          /\ t \notin OutTasks

\* C4: filterTasks('today') with no projectId keeps a task exactly when it has
\* a due date and the calendar day of that date is the current local calendar
\* day, at every time and in every zone
TodayIffDueOnLocalDay ==
    (fcall.called /\ fcall.view = "today" /\ fcall.projectId = Null) =>
        \A k \in 1..Len(fcall.input) :
            LET t == fcall.input[k]
            IN  (\E i \in OutPositions : fcall.out[i] = t)
                    <=> (Dated(t) /\ t.due = LocalDay(fcall.now, fcall.tz))

----------------------------------------------------------------------------
(* Properties of searchTasks, under SpecSearch *)

\* part occurs in str at some offset
Occurs(part, str) ==
    \E k \in 0..(Len(str) - Len(part)) : SubSeq(str, k + 1, k + Len(part)) = part

\* the lower-cased query occurs in the lower-cased title, description or a tag
QueryMatches(t) ==
    LET q == toLowerCase(lastCall.arg)
    IN  \/ Occurs(q, toLowerCase(t.title))
        \/ Occurs(q, toLowerCase(t.desc))
        \/ \E k \in 1..Len(t.tags) : Occurs(q, toLowerCase(t.tags[k]))

\* C16: searchTasks with a non-empty query returns, in collection order,
\* exactly the tasks in whose lower-cased title, description or some tag the
\* lower-cased query occurs; with an empty query it returns the collection as
\* it is
SearchMatches ==
    lastCall.op = "searchTasks" =>
        IF lastCall.arg = <<>> THEN lastCall.out = lastCall.input
        ELSE lastCall.out = SelectSeq(lastCall.input, QueryMatches)

\* C16: a query in upper case on three tasks that finds one of them by a tag
\* in mixed case alone, leaves one out, and returns a done task before an
\* open one
SearchWitness ==
    /\ lastCall.op = "searchTasks"
    /\ lastCall.arg = <<"A", "B">>
    /\ Len(lastCall.input) = 3
    /\ Len(lastCall.out) = 2
    /\ lastCall.out[1].done /\ ~lastCall.out[2].done
    /\ \E i \in 1..2 :
          /\ lastCall.out[i].title = <<"B", "a">>
          /\ lastCall.out[i].desc = <<>>
          /\ lastCall.out[i].tags # <<>>

----------------------------------------------------------------------------
(* Properties of the task form, under SpecForm *)

\* C13: every task of the collection has a non-empty title, whatever quick
\* adds, task form submissions and TaskManager operations were made
TitlesNonEmpty == \A i \in 1..Len(tasks) : tasks[i].title # <<>>

----------------------------------------------------------------------------
(* Properties of the storage gateway on its own, under SpecStore *)

\* the document a store yields to a getData() that does not throw
DocumentIn(st) == IF st.kind = "doc" THEN st.doc ELSE getDefaultData

----------------------------------------------------------------------------
(* Properties of the service worker, under SpecWorker *)

\* C20: when the activate step has completed, no bucket that caches.keys()
\* listed under a name other than CACHE_NAME exists any more, every one of
\* them has been deleted and none is still to be deleted, and the bucket
\* CACHE_NAME, if it was listed, still exists
ActivateCleansOldBuckets ==
    worker.pc = "activated" =>
        /\ \A cacheName \in worker.keys :
              cacheName # CACHE_NAME => cacheName \notin worker.buckets
        /\ worker.pending = {}
        /\ \A cacheName \in worker.buckets : cacheName = CACHE_NAME
        /\ CACHE_NAME \in worker.keys => CACHE_NAME \in worker.buckets

\* C20: activation completed over the current bucket, one of an older version
\* and one of another script: only the current one is left
ActivateWitness ==
    /\ worker.pc = "activated"
    /\ {"lifeflow-v0", CACHE_NAME, "fonts"} \subseteq worker.keys
    /\ worker.buckets = {CACHE_NAME}

----------------------------------------------------------------------------
(* Properties of the order of the steps of deleteProject *)

\* C25: while deleteProject(P) is in progress and a task still references P,
\* P is still in the project collection: the tasks are reassigned first and
\* the project is removed afterwards
ProjectKeptUntilUnassigned ==
    \A p \in Slots :
        LET pr == procs[p]
        IN  (pr.op = "deleteProject" /\ Active(p) /\ pr.found
                /\ \E i \in 1..Len(tasks) : tasks[i].projectId = pr.pid) =>
                IndexOfId(projects, pr.pid) # 0

----------------------------------------------------------------------------
(* Properties of the references from tasks to projects, under SpecRef *)

\* C26: whenever no operation is in progress, every task has no project or a
\* project that is in the project collection, also after a createTask or an
\* updateTask that assigned the task to P while a deleteProject(P) was
\* suspended in a storage call
ReferencesResolve ==
    (appPc = "ready" /\ Quiescent) =>
        \A i \in 1..Len(tasks) :
            tasks[i].projectId = Null \/ IndexOfId(projects, tasks[i].projectId) # 0

----------------------------------------------------------------------------
(* Properties of the persisted document with the operations one at a time,  *)
(* under SpecSeq                                                            *)

\* no storage call has thrown, or one has and it was the read of the operation
\* that has just run: in both cases no write has failed
NoWriteFailed ==
    \/ faultsLeft = MaxFaults
    \/ faultsLeft = MaxFaults - 1 /\ \E p \in Slots : procs[p].readThrew

PersistedFollowsMemoryStep ==
    faultsLeft' = MaxFaults =>
        /\ (appPc' = "ready" /\ Quiescent') =>
              /\ Persisted'.tasks = tasks'
              /\ Persisted'.projects = projects'
        /\ \A p \in Slots :
              (procs[p].pc = "awaitGet" /\ procs'[p].pc = "awaitSave") =>
                  Persisted'.settings =
                      IF procs[p].call = "toggleDarkMode"
                      THEN [Persisted.settings EXCEPT !.darkMode = theme]
                      ELSE Persisted.settings

----------------------------------------------------------------------------
(* Properties of overlapping task operations, under Spec *)

\* two task operations, each with its write done, of which the later began
\* before the earlier had finished
TwoTaskOpsOverlapped(p, q) ==
    /\ p # q
    /\ procs[p].op \in TaskOps /\ procs[p].pc = "done" /\ procs[p].saves = 1
    /\ procs[q].op \in TaskOps /\ procs[q].pc = "done" /\ procs[q].saves = 1
    /\ procs[q].overlapped

\* C28: once two overlapping task operations have both completed, the
\* persisted tasks are the tasks in memory, which hold the effects of both: a
\* task one of them deleted is not persisted, and when no other operation has
\* run a task one of them created is persisted unless the other deleted it
OverlappingTaskOpsKeepUpdates ==
    \A p, q \in Slots :
        (appPc = "ready" /\ Quiescent /\ TwoTaskOpsOverlapped(p, q)) =>
            /\ Persisted.tasks = tasks
            /\ \A r \in {p, q} :
                  /\ procs[r].op = "deleteTask" => procs[r].id \notin IdsOf(Persisted.tasks)
                  /\ (procs[r].op = "createTask"
                        /\ opsLeft = MaxOps - 2
                        /\ \A s \in {p, q} :
                              ~(procs[s].op = "deleteTask" /\ procs[s].id = procs[r].id))
                     => procs[r].id \in IdsOf(Persisted.tasks)

\* C28: a deleteTask and a createTask that overlapped have both completed: the
\* persisted tasks hold the created task and not the deleted one
OverlappingTaskOpsWitness ==
    /\ appPc = "ready" /\ Quiescent
    /\ \E p, q \in Slots :
          /\ TwoTaskOpsOverlapped(p, q)
          /\ procs[p].op = "deleteTask" /\ procs[q].op = "createTask"
          /\ IdsOf(Persisted.tasks) = {procs[q].id}

----------------------------------------------------------------------------
(* Properties of the frame of filterTasks, under SpecFilter *)

\* C29: after filterTasks(view, projectId), for every view, recognized or not,
\* and every projectId, the task collection is the collection the call found,
\* in content and in order
FilterTasksReadsOnly == fcall.called => tasks = fcall.input

----------------------------------------------------------------------------
(* Properties of the operations called with an id that is not there, under  *)
(* SpecSeq                                                                  *)

\* the call that begins in slot p in this step names an id that is in neither
\* collection
BeginsOnMissingId(p) ==
    LET id == procs'[p].id
    IN  /\ ~Active(p) /\ procs'[p] # procs[p]
        /\ procs'[p].op = procs'[p].call
        /\ \/ /\ procs'[p].op \in {"updateTask", "deleteTask", "toggleTask"}
              /\ IndexOfId(tasks, id) = 0
           \/ /\ procs'[p].op = "updateProject"
              /\ IndexOfId(projects, id) = 0
           \/ /\ procs'[p].op = "deleteProject"
              /\ IndexOfId(projects, id) = 0
              /\ IndexOfId(tasks, id) = 0
              /\ procs'[p].pid # id

\* C30: updateTask, deleteTask, toggleTask, updateProject and deleteProject
\* called with an id that is not in the collection return at once: the
\* collections in memory and both stores are as they were, nothing is written,
\* no event is emitted, and updateTask and updateProject return null
MissingIdStep(p) ==
    BeginsOnMissingId(p) =>
        /\ UNCHANGED <<tasks, projects, localStore, indexedStore, bus, router>>
        /\ procs'[p].pc = "done"
        /\ procs'[p].saves = 0
        /\ procs'[p].emitted = <<>>
        /\ procs'[p].op \in {"updateTask", "updateProject"} => procs'[p].ret = "null"

MissingIdChangesNothing == [][\A p \in Slots : MissingIdStep(p)]_vars

\* C30: updateTask has returned null for an id that no task has, with two
\* tasks in memory and the stored document as it was loaded
MissingIdWitness ==
    /\ localStore = Stored(SavedDocument)
    /\ tasks = SavedDocument.tasks
    /\ \E p \in Slots :
          /\ procs[p].op = "updateTask" /\ procs[p].pc = "done"
          /\ procs[p].ret = "null" /\ procs[p].saves = 0
          /\ IndexOfId(tasks, procs[p].id) = 0

----------------------------------------------------------------------------
(* Properties of convertToCSV, under SpecCsv *)

\* the text a quoted field stands for: the quotes around it taken off and
\* every pair of quotes inside read as one; a single quote inside is an error
RECURSIVE undouble(_)
undouble(str) ==
    IF str = <<>> THEN <<>>
    ELSE IF Head(str) # Quote THEN <<Head(str)>> \o undouble(Tail(str))
         ELSE IF Len(str) >= 2 /\ str[2] = Quote
              THEN <<Quote>> \o undouble(SubSeq(str, 3, Len(str)))
              ELSE <<"error">>

Renders(field, value) ==
    /\ Len(field) >= 2
    /\ field[1] = Quote /\ field[Len(field)] = Quote
    /\ undouble(SubSeq(field, 2, Len(field) - 1)) = value

\* every row has seven fields, each in double quotes with the quotes inside
\* doubled: title, description, due date, (project), tags joined, Yes or No,
\* creation timestamp; the text is the header line and the rows
CsvRowsQuoted ==
    LET ts == lastCall.input
        rows == lastCall.out.rows
    IN  /\ Len(rows) = Len(ts)
        /\ \A k \in 1..Len(ts) :
              /\ Len(rows[k]) = 7
              /\ Renders(rows[k][1], ts[k].title)
              /\ Renders(rows[k][2], ts[k].desc)
              /\ Renders(rows[k][3], IF ts[k].due = NoDue THEN <<>>
                                     ELSE <<ToString(ts[k].due)>>)
              /\ \E project \in {<<>>, <<"undefined">>}
                                \cup {lastCall.arg[i].name : i \in 1..Len(lastCall.arg)} :
                    Renders(rows[k][4], project)
              /\ Renders(rows[k][5], join(ts[k].tags, <<";", " ">>))
              /\ Renders(rows[k][6], IF ts[k].done THEN <<"Yes">> ELSE <<"No">>)
              /\ Renders(rows[k][7], <<ToString(ts[k].created)>>)
        /\ lastCall.out.text =
              join(<<join(csvHeaders, <<",">>)>>
                       \o [k \in 1..Len(ts) |-> join(rows[k], <<",">>)], <<"\n">>)

\* the project column: the name of the project the task references, or the
\* empty string when it has none
CsvProjectColumn ==
    \A k \in 1..Len(lastCall.input) :
        LET t == lastCall.input[k]
            named == {lastCall.arg[i].name :
                         i \in {j \in 1..Len(lastCall.arg) :
                                   lastCall.arg[j].id = t.projectId}}
        IN  \/ t.projectId = Null /\ Renders(lastCall.out.rows[k][4], <<>>)
            \/ \E name \in named : Renders(lastCall.out.rows[k][4], name)

\* C23: convertToCSV renders every field of every row in double quotes with
\* the quotes inside doubled, in the seven columns title, description, due
\* date, project, tags, done, created, and the project column holds the name of
\* the referenced project, or the empty string when the task has no project
CsvRendersTasks ==
    lastCall.op = "convertToCSV" => (CsvRowsQuoted /\ CsvProjectColumn)

----------------------------------------------------------------------------
(* Properties of the rendering paths, under SpecMarkup *)

\* what is written cannot leave its position: in element content no < and no
\* bare &, and inside a double-quoted attribute value no double quote either
Escaped(ins) ==
    \A i \in 1..Len(ins.markup) :
        /\ ins.markup[i] \notin {"<", ">", "&"}
        /\ ins.position = "attribute" => ins.markup[i] # Quote

RenderOps ==
    {"renderTaskItem", "renderKanbanCard", "renderProjects", "populateProjectSelect",
     "renderTags", "renderSubtasks"}

\* C24: in every rendering path, every text of the user that is written into
\* the markup (title, description, tag, subtask text, project name, project
\* color) is escaped for the position it is written in
EveryTextEscaped ==
    lastCall.op \in RenderOps =>
        \A k \in 1..Len(lastCall.out) : Escaped(lastCall.out[k])

----------------------------------------------------------------------------
(* The fetch listener *)

\* C21: the fetch listener goes on to respond exactly for GET requests whose
\* url starts with http; for any other request it returns at once, makes no
\* network request, leaves the cache as it was and takes no further step; a
\* handled request that has a cache entry is answered with that entry and no
\* network request is made for it.
FetchHandledStep(f) ==
    LET before == worker.fetches[f]
        after == worker'.fetches[f]
    IN  /\ (before.pc = "idle" /\ after.pc # "idle") =>
              /\ after.pc = IF after.method = "GET"
                               /\ startsWith(after.url, <<"h", "t", "t", "p">>)
                            THEN "matching" ELSE "unhandled"
              /\ after.requests = 0
              /\ after.response = NoResponse
              /\ worker'.cache = worker.cache
              /\ worker'.puts = worker.puts
              /\ worker'.buckets = worker.buckets
        /\ before.pc = "unhandled" => after = before
        /\ (before.pc = "matching" /\ after # before
               /\ cacheMatch(worker.cache, before.url) # {}) =>
              /\ after.pc = "responded"
              /\ after.response.from = "cache"
              /\ [url |-> before.url, body |-> after.response.body] \in worker.cache
              /\ after.requests = 0
              /\ worker'.cache = worker.cache
              /\ worker'.puts = worker.puts

FetchHandlesGetOverHttp == [][\A f \in FetchSlots : FetchHandledStep(f)]_vars

FetchHandlesWitness ==
    \E f, g \in FetchSlots :
        /\ worker.fetches[f].pc = "unhandled"
        /\ worker.fetches[f].method = "POST"
        /\ worker.fetches[f].url = AssetUrl
        /\ worker.fetches[g].pc = "responded"
        /\ worker.fetches[g].response.from = "cache"
        /\ worker.fetches[g].requests = 0

\* C22: once a response with status 200 and a type other than error has been
\* returned for a miss, its copy is in the current bucket, and a GET for the
\* same request issued after that is answered from the cache; a response that
\* is not 200 or is of type error is returned with no copy stored.
CachedBeforeReturned ==
    \A f \in FetchSlots :
        LET fetch == worker.fetches[f]
        IN  /\ (fetch.pc = "responded" /\ fetch.response.from = "network") =>
                  IF notCached(fetch.response)
                  THEN [url |-> fetch.url, body |-> fetch.response.body]
                           \notin worker.cache \cup worker.puts
                  ELSE cacheMatch(worker.cache, fetch.url) # {}
            /\ fetch.afterReturn =>
                  /\ fetch.requests = 0
                  /\ fetch.pc = "responded" => fetch.response.from = "cache"

====
